---- MODULE Spec2Model ----
(***************************************************************************)
(* A model of PulsePortraiture: the TOA driver GetTOAs.get_TOAs            *)
(* (src/pptoas.py) and the Fourier-domain fitting library (src/pplib.py).  *)
(*                                                                         *)
(* Python values that may be None or NaN are tagged tuples: None, NaN and  *)
(* Num(v).  Python list indices are 0-based; the sequences that model      *)
(* Python lists are 1-based, so list[i] is seq[i+1].                       *)
(***************************************************************************)
EXTENDS Integers, Sequences, FiniteSets, TLC

VARIABLES
    pc,     \* where get_TOAs is: start, archive, subint, done, raised
    args,   \* the arguments of the get_TOAs call
    gt,     \* the attributes of the GetTOAs object
    loc,    \* the local variables of get_TOAs
    err,    \* the exception that ended get_TOAs, if any
    call    \* the call of a pplib function under way: inputs and results

vars == <<pc, args, gt, loc, err, call>>

(***************************************************************************)
(* Bounds of the model.                                                    *)
(***************************************************************************)
MaxFiles == 2
MaxSub == 2
MaxChan == 3

(***************************************************************************)
(* Python values.                                                          *)
(***************************************************************************)
None == <<"None">>
NaN == <<"nan">>
Num(v) == <<"num", v>>
\* a numpy array of numbers
Arr(a) == <<"arr", a>>

BOOL == {TRUE, FALSE}

\* int(b) of a Python bool
int(b) == IF b THEN 1 ELSE 0

max(a, b) == IF a >= b THEN a ELSE b

\* Assigning x to a slot of a numpy float64 array: None is stored as nan.
Float64Slot(x) == IF x = None THEN NaN ELSE x

\* x * f for a Python value x that is known not to be None
PyMul(x, f) == IF x = NaN THEN NaN ELSE Num(x[2] * f)

RECURSIVE SumSeq(_)
SumSeq(s) == IF s = <<>> THEN 0 ELSE Head(s) + SumSeq(Tail(s))

(***************************************************************************)
(* The arguments of one get_TOAs call.                                     *)
(***************************************************************************)
UserDM0 == 7
\* A bounds list a caller may pass: five (low, high) pairs.
UserBounds == << <<None, None>>, <<None, None>>, <<None, None>>,
                 <<Num(0), None>>, <<Num(-5), Num(5)>> >>

ArgSets ==
    [fit_DM : BOOL, fit_GM : BOOL, fit_scat : BOOL, fix_alpha : BOOL,
     log10_tau : BOOL, bary_DM : BOOL,
     method : {"trust-ncg", "TNC"}, bounds : {None, UserBounds},
     DM0 : {None, Num(UserDM0)}]

\* The calls the model explores: the command line passes method='trust-ncg'
\* and bounds=None; interactive callers may pass 'TNC' with or without bounds.
Calls ==
    {a \in ArgSets : a.method = "trust-ncg" => a.bounds = None}

(***************************************************************************)
(* GetTOAs.__init__: the result lists start empty.                         *)
(***************************************************************************)
GetTOAsInit ==
    [nfiles |-> 1, nfit |-> 0, nchan_min |-> 0, fit_flags |-> <<>>, log10_tau |-> FALSE,
     DM0 |-> None, bary_DM |-> FALSE, gparams_tau |-> None,
     ok_idatafiles |-> <<>>, order |-> <<>>, ok_isubs |-> <<>>,
     doppler_fs |-> <<>>, DM0s |-> <<>>, phis |-> <<>>, DMs |-> <<>>,
     GMs |-> <<>>, taus |-> <<>>, alphas |-> <<>>, nfevals |-> <<>>,
     rcs |-> <<>>, covariances |-> <<>>, TOA_list |-> <<>>]

\* Before and after a call get_TOAs has no local variables.
NoLocals == [iarch |-> 0, bounds |-> None]
NoResult == [path |-> "none"]
NoCall == [fn |-> "none"]
NoError == [type |-> "none", site |-> "none", path |-> "none"]

(***************************************************************************)
(* get_TOAs, lines 189-224: the fit flags, nfit and nchan_min.             *)
(***************************************************************************)
nfit_of(a) ==
    1 + int(a.fit_DM) + int(a.fit_GM) + (IF a.fit_scat THEN 2 ELSE 0)
      - (IF a.fix_alpha THEN 1 ELSE 0)

fit_alpha_of(a) == IF a.fit_scat THEN ~a.fix_alpha ELSE a.fit_scat

\* a variant that does not count fit_GM
nchan_min_of_NoGM(a) ==
    LET base == 1 + int(a.fit_DM)
    IN  IF fit_alpha_of(a) THEN max(2, base) ELSE base

nchan_min_of(a) ==
    LET base == 1 + int(a.fit_DM) + int(a.fit_GM)
    IN  IF fit_alpha_of(a) THEN max(2, base) ELSE base

fit_flags_of(a) ==
    <<int(TRUE), int(a.fit_DM), int(a.fit_GM), int(a.fit_scat),
      int(fit_alpha_of(a))>>

log10_tau_of(a) == IF ~a.fit_scat THEN FALSE ELSE a.log10_tau

Begin ==
    /\ pc = "start"
    /\ gt' = [gt EXCEPT !.nfit = nfit_of(args),
                        !.nchan_min = nchan_min_of(args),
                        !.fit_flags = fit_flags_of(args),
                        !.log10_tau = log10_tau_of(args),
                        !.DM0 = args.DM0,
                        !.bary_DM = args.bary_DM,
                        !.ok_idatafiles = <<>>]
    /\ loc' = [iarch |-> 0, bounds |-> args.bounds]
    /\ pc' = "archive"
    /\ UNCHANGED <<args, err>>

(***************************************************************************)
(* load_data of one archive (imported from pptoaslib): it raises           *)
(* RuntimeError, or returns nsub subintegrations of which ok_isubs are     *)
(* good, each good one with its number of valid channels.                  *)
(***************************************************************************)
RECURSIVE SortedSeq(_)
SortedSeq(S) ==
    IF S = {} THEN <<>>
    ELSE LET m == CHOOSE x \in S : \A y \in S : x <= y
         IN  <<m>> \o SortedSeq(S \ {m})

Range(s) == {s[i] : i \in 1..Len(s)}

LoadOutcomes ==
    UNION { UNION { { [nsub |-> n, ok_isubs |-> SortedSeq(S), nvalid |-> f] :
                        f \in [S -> 1..MaxChan] } :
                    S \in SUBSET (0..(n-1)) } :
            n \in 1..MaxSub }

\* The DM stored in the header of archive iarch, and its Doppler factors.
StoredDM(iarch) == 10 * (iarch + 1)
\* The number of profile bins of archive iarch.
NBin(iarch) == 64 * (iarch + 1)
DopplerFactor == 2

\* What the fit of subintegration isub of archive iarch converges to.
FittedPhi(iarch, isub) == 1 + isub
FittedDM(iarch, isub) == StoredDM(iarch) + 1 + isub
FittedGM(iarch, isub) == 3 + isub
FittedTau(iarch, isub) == 4
FittedAlpha(iarch, isub) == 5

(***************************************************************************)
(* get_TOAs, lines 225-302: load one archive, pre-allocate its result      *)
(* arrays (one slot per subintegration) and pin the DM bound.              *)
(***************************************************************************)
\* a variant with one slot too many
Zeros_OneMore(n, z) == [i \in 0..n |-> z]

\* np.zeros(nsub) and np.ones(nsub): slots 0..nsub-1
Zeros(n, z) == [i \in 0..(n-1) |-> z]

\* bounds[1] = (DM0, DM0) on a Python list
PinDM(bounds, DM0) == [bounds EXCEPT ![2] = <<DM0, DM0>>]

Allocate(ld, iarch, bounds, DM0) ==
    [iarch |-> iarch, bounds |-> bounds,
     nsub |-> ld.nsub, ok_isubs |-> ld.ok_isubs, nvalid |-> ld.nvalid,
     DM_stored |-> Num(StoredDM(iarch)), DM0 |-> DM0, idx |-> 1,
     doppler_fs |-> Zeros(ld.nsub, 1),
     phis |-> Zeros(ld.nsub, Num(0)), DMs |-> Zeros(ld.nsub, Num(0)),
     GMs |-> Zeros(ld.nsub, Num(0)), taus |-> Zeros(ld.nsub, Num(0)),
     alphas |-> Zeros(ld.nsub, Num(0)),
     nfevals |-> Zeros(ld.nsub, 0), rcs |-> Zeros(ld.nsub, 0),
     covariances |-> Zeros(ld.nsub, [n |-> gt.nfit, kind |-> "zeros"]),
     isub |-> 0 - 1, param_guesses |-> <<>>, results |-> NoResult]

\* a variant that counts the archive as fitted before loading it
LoadFails_Counted ==
    /\ pc = "archive"
    /\ loc.iarch < gt.nfiles
    /\ gt' = [gt EXCEPT !.ok_idatafiles = Append(@, loc.iarch)]
    /\ loc' = [iarch |-> loc.iarch + 1, bounds |-> loc.bounds]
    /\ UNCHANGED <<pc, args, err>>

\* lines 228-243: load_data raises RuntimeError and the archive is skipped
LoadFails ==
    /\ pc = "archive"
    /\ loc.iarch < gt.nfiles
    /\ loc' = [iarch |-> loc.iarch + 1, bounds |-> loc.bounds]
    /\ UNCHANGED <<pc, args, gt, err>>

LoadArchive ==
    /\ pc = "archive"
    /\ loc.iarch < gt.nfiles
    /\ \E ld \in LoadOutcomes :
         IF Len(ld.ok_isubs) = 0
         THEN /\ loc' = [iarch |-> loc.iarch + 1, bounds |-> loc.bounds]
              /\ UNCHANGED <<pc, args, gt, err>>
         ELSE LET DM0 == IF gt.DM0 = None THEN Num(StoredDM(loc.iarch))
                         ELSE gt.DM0
                  ok == [gt EXCEPT !.ok_idatafiles = Append(@, loc.iarch)]
              IN  /\ gt' = ok
                  /\ IF ~args.fit_DM /\ loc.bounds = None
                     THEN \* bounds[1] = ... on None: TypeError
                          /\ pc' = "raised"
                          /\ err' = [type |-> "TypeError", site |-> "bounds",
                                     path |-> "none"]
                          /\ UNCHANGED loc
                     ELSE /\ pc' = "subint"
                          /\ loc' = Allocate(ld, loc.iarch,
                                       IF ~args.fit_DM
                                       THEN PinDM(loc.bounds, DM0)
                                       ELSE loc.bounds, DM0)
                          /\ UNCHANGED err
                  /\ UNCHANGED args

(***************************************************************************)
(* get_TOAs, lines 303-537: one subintegration.                            *)
(***************************************************************************)
\* lines 379-381: (self.gparams[1] / P) * (nu_fit_tau / self.model_nu_ref)
\* ** alpha_guess in rotations, as <<numerator, denominator>>, when the model
\* read with fit_scat has Gaussian parameters; None when self has no gparams
ModelTaus == {None, <<0, 1>>, <<1, 1000>>, <<1, 10>>}

\* self.alpha of the model file, or scattering_alpha
ScatteringAlpha == 0 - 4

\* lines 375-390: 0.0 without fit_scat; the model's timescale, in rotations
\* <<"rot", n, d>> or, with self.log10_tau, as <<"log10", n, d>> for
\* np.log10(n/d), a zero timescale being replaced by nbin**-1 first
TauGuess(fit_scat, log10_tau, gparams_tau, nbin) ==
    IF ~fit_scat THEN Num(0)
    ELSE LET tau_guess == IF gparams_tau = None THEN <<0, 1>> ELSE gparams_tau
         IN  IF log10_tau
             THEN (IF tau_guess[1] = 0 THEN <<"log10", 1, nbin>>
                   ELSE <<"log10", tau_guess[1], tau_guess[2]>>)
             ELSE IF tau_guess[1] = 0 THEN Num(0)
             ELSE <<"rot", tau_guess[1], tau_guess[2]>>

\* lines 369-403: param_guesses = [phi_guess, DM_guess, GM_guess, tau_guess,
\* alpha_guess]
ParamGuesses(iarch, isub, DM_stored) ==
    <<Num(FittedPhi(iarch, isub)), DM_stored, Num(0),
      TauGuess(args.fit_scat, gt.log10_tau, gt.gparams_tau, NBin(iarch)),
      IF args.fit_scat THEN Num(ScatteringAlpha) ELSE Num(0)>>

\* np.log10((10*nbin)**-1)
Log10Floor(nbin) == <<"log10(1/(10*nbin))", nbin>>

\* lines 404-412
DefaultBounds(log10_tau, nbin) ==
    << <<None, None>>, <<None, None>>, <<None, None>>,
       IF ~log10_tau THEN <<Num(0), None>> ELSE <<Log10Floor(nbin), None>>,
       <<Num(-10), Num(10)>> >>

\* fit_portrait_full (imported from pptoaslib): a parameter whose flag is 0
\* is held at its guess; the covariance matrix has one row per active flag.
FitPortraitFull(guesses, flags, iarch, isub) ==
    [path |-> "full",
     phi |-> Num(FittedPhi(iarch, isub)),
     DM |-> IF flags[2] = 1 THEN Num(FittedDM(iarch, isub)) ELSE guesses[2],
     GM |-> IF flags[3] = 1 THEN Num(FittedGM(iarch, isub)) ELSE guesses[3],
     tau |-> IF flags[4] = 1 THEN Num(FittedTau(iarch, isub)) ELSE guesses[4],
     alpha |-> IF flags[5] = 1 THEN Num(FittedAlpha(iarch, isub))
               ELSE guesses[5],
     nfeval |-> 9, return_code |-> 1,
     covariance_matrix |-> [n |-> SumSeq(flags), kind |-> "fitted"]]

\* lines 436-455: the phase-only fallback ("1-channel hack")
PhaseOnlyFallback(nfit, iarch, isub) ==
    [path |-> "fallback",
     phi |-> Num(FittedPhi(iarch, isub)),
     DM |-> None, GM |-> None, tau |-> None, alpha |-> None,
     nfeval |-> 0, return_code |-> 0 - 2,
     covariance_matrix |-> [n |-> nfit, kind |-> "identity"]]

\* the fit of one subint with a strict comparison of the channel count
FitOne_Strict(nvalid, nchan_min, guesses, flags, nfit, iarch, isub) ==
    IF nvalid > nchan_min
    THEN FitPortraitFull(guesses, flags, iarch, isub)
    ELSE PhaseOnlyFallback(nfit, iarch, isub)

\* lines 419-455: the full fit, or the 1-channel hack
FitOne(nvalid, nchan_min, guesses, flags, nfit, iarch, isub) ==
    IF nvalid >= nchan_min
    THEN FitPortraitFull(guesses, flags, iarch, isub)
    ELSE PhaseOnlyFallback(nfit, iarch, isub)

\* lines 469-478: results.DM *= df raises TypeError on None
DopplerMultiplies(bary_DM, nvalid) == bary_DM /\ nvalid > 1

DopplerRaises(bary_DM, nvalid, res) ==
    DopplerMultiplies(bary_DM, nvalid) /\ (res.DM = None \/ res.GM = None)

DopplerCorrect(bary_DM, nvalid, res) ==
    IF DopplerMultiplies(bary_DM, nvalid)
    THEN [res EXCEPT !.DM = PyMul(@, DopplerFactor),
                     !.GM = PyMul(@, DopplerFactor)]
    ELSE res

\* covariances[isub] = results.covariance_matrix: numpy broadcasts a matrix
\* of side m into a slot of side n when m = n or m = 1.
Broadcasts(m, n) == m = n \/ m = 1

\* lines 505-516: 10**results.tau and results.tau * P raise TypeError on None
FlagsRaise(fit_scat, res) == fit_scat /\ res.tau = None

FitSubint ==
    /\ pc = "subint"
    /\ loc.idx <= Len(loc.ok_isubs)
    /\ LET isub == loc.ok_isubs[loc.idx]
           n == loc.nvalid[isub]
           guesses == ParamGuesses(loc.iarch, isub, loc.DM_stored)
           bounds == IF loc.bounds = None /\ args.method = "TNC"
                     THEN DefaultBounds(gt.log10_tau, NBin(loc.iarch))
                     ELSE loc.bounds
           res0 == FitOne(n, gt.nchan_min, guesses, gt.fit_flags, gt.nfit,
                          loc.iarch, isub)
           res == DopplerCorrect(gt.bary_DM, n, res0)
           fitted == [loc EXCEPT !.isub = isub,
                                 !.bounds = bounds,
                                 !.param_guesses = guesses,
                                 !.results = res0]
           stored == [fitted EXCEPT
                        !.results = res,
                        !.doppler_fs[isub] =
                            IF gt.bary_DM THEN DopplerFactor ELSE 1,
                        !.phis[isub] = Float64Slot(res.phi),
                        !.DMs[isub] = Float64Slot(res.DM),
                        !.GMs[isub] = Float64Slot(res.GM),
                        !.taus[isub] = Float64Slot(res.tau),
                        !.alphas[isub] = Float64Slot(res.alpha),
                        !.nfevals[isub] = res.nfeval,
                        !.rcs[isub] = res.return_code]
           toa == [archive |-> loc.iarch, subint |-> isub, DM |-> res.DM,
                   nchx |-> n]
       IN  IF DopplerRaises(gt.bary_DM, n, res0)
           THEN /\ pc' = "raised"
                /\ err' = [type |-> "TypeError", site |-> "doppler",
                           path |-> res0.path]
                /\ loc' = fitted
                /\ UNCHANGED <<args, gt>>
           ELSE IF ~Broadcasts(res.covariance_matrix.n, gt.nfit)
           THEN /\ pc' = "raised"
                /\ err' = [type |-> "ValueError", site |-> "covariances",
                           path |-> res.path]
                /\ loc' = stored
                /\ UNCHANGED <<args, gt>>
           ELSE IF FlagsRaise(args.fit_scat, res)
           THEN /\ pc' = "raised"
                /\ err' = [type |-> "TypeError", site |-> "toa_flags",
                           path |-> res.path]
                /\ loc' = [stored EXCEPT !.covariances[isub] =
                                             res.covariance_matrix]
                /\ UNCHANGED <<args, gt>>
           ELSE /\ loc' = [stored EXCEPT !.covariances[isub] =
                                             res.covariance_matrix,
                                         !.idx = @ + 1]
                /\ gt' = [gt EXCEPT !.TOA_list = Append(@, toa)]
                /\ UNCHANGED <<pc, args, err>>

(***************************************************************************)
(* get_TOAs, lines 539-598: append the archive's arrays to the object's    *)
(* lists and go to the next archive.                                       *)
(***************************************************************************)
FinishArchive ==
    /\ pc = "subint"
    /\ loc.idx > Len(loc.ok_isubs)
    /\ gt' = [gt EXCEPT !.order = Append(@, loc.iarch),
                        !.doppler_fs = Append(@, loc.doppler_fs),
                        !.ok_isubs = Append(@, loc.ok_isubs),
                        !.phis = Append(@, loc.phis),
                        !.DM0s = Append(@, loc.DM0),
                        !.DMs = Append(@, loc.DMs),
                        !.GMs = Append(@, loc.GMs),
                        !.taus = Append(@, loc.taus),
                        !.alphas = Append(@, loc.alphas),
                        !.covariances = Append(@, loc.covariances),
                        !.nfevals = Append(@, loc.nfevals),
                        !.rcs = Append(@, loc.rcs)]
    /\ loc' = [iarch |-> loc.iarch + 1, bounds |-> loc.bounds]
    /\ pc' = "archive"
    /\ UNCHANGED <<args, err>>

\* lines 599-604: the loop over the archives is over
Return ==
    /\ pc = "archive"
    /\ loc.iarch = gt.nfiles
    /\ pc' = "done"
    /\ loc' = NoLocals
    /\ UNCHANGED <<args, gt, err>>

(***************************************************************************)
(* __main__, lines 957-981: after get_TOAs has returned, the TOAs are      *)
(* written in the format and with the one_DM option of the command line.   *)
(***************************************************************************)
\* what is written as the DM of a TOA
WrittenDM(toa, one_DM, format) ==
    IF one_DM THEN [kind |-> "DeltaDM_mean", of |-> Num(toa.archive)]
    ELSE IF format = "princeton"
    THEN [kind |-> "DeltaDM", of |-> Float64Slot(toa.DM)]
    ELSE [kind |-> "DM", of |-> toa.DM]

\* write_princeton_TOAs looks every datafile up among the archives that
\* were fitted (lines 677-678): .index raises for one that was skipped
PrincetonRaises == \E iarch \in 0..(gt.nfiles - 1) :
                       iarch \notin Range(gt.ok_idatafiles)

WriteTOAs ==
    /\ pc = "done"
    /\ args.method = "trust-ncg" /\ args.bounds = None
    /\ \E one_DM \in BOOL, format \in {"tempo2", "princeton"} :
         LET opts == [fn |-> "write_TOAs", one_DM |-> one_DM,
                      format |-> format, written |-> <<>>]
         IN  IF format = "tempo2" /\ one_DM /\ gt.TOA_list # <<>>
             THEN \* line 971 reads the name toa_archive, which nothing binds
                  /\ pc' = "raised"
                  /\ err' = [type |-> "NameError", site |-> "toa_archive",
                             path |-> "none"]
                  /\ call' = opts
             ELSE IF format = "princeton" /\ PrincetonRaises
             THEN /\ pc' = "raised"
                  /\ err' = [type |-> "ValueError", site |-> "ifile",
                             path |-> "none"]
                  /\ call' = opts
             ELSE /\ pc' = "written"
                  /\ call' = [opts EXCEPT !.written =
                                [k \in 1..Len(gt.TOA_list) |->
                                    [archive |-> gt.TOA_list[k].archive,
                                     subint |-> gt.TOA_list[k].subint,
                                     DM |-> WrittenDM(gt.TOA_list[k], one_DM,
                                                      format)]]]
                  /\ UNCHANGED err
    /\ UNCHANGED <<args, gt, loc>>

Init ==
    /\ pc = "start"
    /\ args \in Calls
    /\ \E n \in 1..MaxFiles :
         \E tau \in IF args.fit_scat THEN ModelTaus ELSE {None} :
             gt = [GetTOAsInit EXCEPT !.nfiles = n, !.gparams_tau = tau]
    /\ loc = NoLocals
    /\ err = NoError
    /\ call = NoCall

Next ==
    \/ Begin /\ UNCHANGED call
    \/ LoadFails /\ UNCHANGED call
    \/ LoadArchive /\ UNCHANGED call
    \/ FitSubint /\ UNCHANGED call
    \/ FinishArchive /\ UNCHANGED call
    \/ Return /\ UNCHANGED call
    \/ WriteTOAs

Spec == Init /\ [][Next]_vars

(***************************************************************************)
(* Properties of get_TOAs.                                                 *)
(***************************************************************************)
\* A subintegration has been fitted in the current archive; loc.isub is it.
Fitted ==
    /\ pc \in {"subint", "raised"}
    /\ "results" \in DOMAIN loc
    /\ loc.results.path # "none"

FittedChannels == loc.nvalid[loc.isub]

IsDegenerateResult(res) ==
    /\ res.path = "fallback"
    /\ res.DM = None /\ res.GM = None /\ res.tau = None /\ res.alpha = None
    /\ res.nfeval = 0
    /\ res.return_code = 0 - 2
    /\ res.covariance_matrix = [n |-> gt.nfit, kind |-> "identity"]

\* C1 as stated: for every combination of fit options, a subintegration with
\* exactly one valid channel is fitted by the phase-only fallback, with DM,
\* GM, tau and alpha None, nfeval 0, return code -2, identity covariance.
C1_SingleChannelAlwaysFallback ==
    (Fitted /\ FittedChannels = 1) => IsDegenerateResult(loc.results)

\* C1 amended: when DM, GM or the scattering index is fitted (nchan_min >= 2),
\* a subintegration with exactly one valid channel is fitted by the
\* phase-only fallback, with DM, GM, tau and alpha None, nfeval 0, return
\* code -2 and an identity covariance of side nfit; when none of them is
\* fitted it is fitted by the full fit.
C1_SingleChannelFallback ==
    (Fitted /\ FittedChannels = 1) =>
        IF args.fit_DM \/ args.fit_GM \/ (args.fit_scat /\ ~args.fix_alpha)
        THEN IsDegenerateResult(loc.results)
        ELSE loc.results.path = "full"

C1_Witness ==
    /\ Fitted /\ FittedChannels = 1
    /\ args.fit_DM
    /\ pc = "subint"
    /\ loc.results.path = "fallback"
    /\ loc.rcs[loc.isub] = 0 - 2

\* C2: a subintegration with at least one but fewer than nchan_min valid
\* channels never raises: the fallback's result is written to the slot of
\* its own index, one TOA is appended and the loop goes on.
C2_FallbackStep ==
    (/\ pc = "subint"
     /\ loc.idx <= Len(loc.ok_isubs)
     /\ loc.nvalid[loc.ok_isubs[loc.idx]] < gt.nchan_min)
    => (/\ pc' = "subint"
        /\ loc'.idx = loc.idx + 1
        /\ loc'.results.path = "fallback"
        /\ loc'.rcs[loc.ok_isubs[loc.idx]] = 0 - 2
        /\ Len(gt'.TOA_list) = Len(gt.TOA_list) + 1)

C2_FallbackNeverRaises == [][C2_FallbackStep]_vars

\* C3: nfit equals the number of entries equal to 1 in fit_flags.
C3_NfitCountsFlags ==
    pc # "start" => gt.nfit = SumSeq(gt.fit_flags)

\* C4: with fit_DM=False and bounds=None the call does not raise, and every
\* fit runs with DM not fitted and pinned to DM0.
C4_FixedDMRuns ==
    (~args.fit_DM /\ args.bounds = None) =>
        /\ ~(pc = "raised" /\ err.site = "bounds")
        /\ Fitted => (gt.fit_flags[2] = 0 /\ loc.bounds # None
                      /\ loc.bounds[2] = <<loc.DM0, loc.DM0>>)

(***************************************************************************)
(* Exact arithmetic for pplib.                                             *)
(*                                                                         *)
(* A real number is a fraction <<n, d>> in lowest terms with d >= 0; as in *)
(* numpy's float arithmetic a division by zero does not raise: <<1, 0>>    *)
(* and <<-1, 0>> are +inf and -inf, and <<0, 0>> is nan.  A complex number *)
(* is a record [re, im] of two reals.                                      *)
(***************************************************************************)
Abs(n) == IF n < 0 THEN 0 - n ELSE n
Sgn(n) == IF n < 0 THEN 0 - 1 ELSE IF n = 0 THEN 0 ELSE 1

RECURSIVE Gcd(_, _)
Gcd(a, b) == IF b = 0 THEN a ELSE Gcd(b, a % b)

RNorm(n, d) ==
    IF d = 0 THEN <<Sgn(n), 0>>
    ELSE LET g == Gcd(Abs(n), d) IN <<n \div g, d \div g>>

R(n) == <<n, 1>>
RNaN == <<0, 0>>
RIsFinite(a) == a[2] # 0

\* Each operation takes the values of its operands once: a and b range
\* over the one-element sets of the operands.
Only(S) == CHOOSE r \in S : TRUE

RNeg(x) == Only({ <<0 - a[1], a[2]>> : a \in {x} })

RAdd(x, y) ==
    Only({ IF a[2] # 0 /\ b[2] # 0
           THEN LET g == Gcd(a[2], b[2])
                    l == (a[2] \div g) * b[2]
                IN  RNorm(a[1] * (l \div a[2]) + b[1] * (l \div b[2]), l)
           ELSE IF a = RNaN \/ b = RNaN THEN RNaN
           ELSE IF a[2] # 0 THEN b
           ELSE IF b[2] # 0 THEN a
           ELSE IF a = b THEN a ELSE RNaN : a \in {x}, b \in {y} })

RSub(a, b) == RAdd(a, RNeg(b))

RMul(x, y) ==
    Only({ IF a[2] # 0 /\ b[2] # 0
           THEN LET g1 == Gcd(Abs(a[1]), b[2])
                    g2 == Gcd(Abs(b[1]), a[2])
                IN  RNorm((a[1] \div g1) * (b[1] \div g2),
                          (a[2] \div g2) * (b[2] \div g1))
           ELSE RNorm(a[1] * b[1], 0) : a \in {x}, b \in {y} })

RInv(x) ==
    Only({ IF a[1] = 0 THEN (IF a[2] = 0 THEN RNaN ELSE <<1, 0>>)
           ELSE <<Sgn(a[1]) * a[2], Abs(a[1])>> : a \in {x} })

RDiv(a, b) == RMul(a, RInv(b))

RLeq(a, b) == a[1] * b[2] <= b[1] * a[2]

Cx(re, im) == [re |-> re, im |-> im]
CZero == Cx(R(0), R(0))
COne == Cx(R(1), R(0))
CAdd(x, y) ==
    Only({ Cx(RAdd(z.re, w.re), RAdd(z.im, w.im)) : z \in {x}, w \in {y} })
CMul(x, y) ==
    Only({ Cx(RSub(RMul(z.re, w.re), RMul(z.im, w.im)),
              RAdd(RMul(z.re, w.im), RMul(z.im, w.re))) :
           z \in {x}, w \in {y} })
CConj(x) == Only({ Cx(z.re, RNeg(z.im)) : z \in {x} })
CScale(x, y) ==
    Only({ Cx(RMul(r, z.re), RMul(r, z.im)) : r \in {x}, z \in {y} })

RECURSIVE CPow(_, _)
CPow(z, n) == IF n = 0 THEN COne ELSE CMul(z, CPow(z, n - 1))

RECURSIVE RSum(_)
RSum(s) == IF s = <<>> THEN R(0) ELSE RAdd(Head(s), RSum(Tail(s)))

RECURSIVE CSum(_)
CSum(s) == IF s = <<>> THEN CZero ELSE CAdd(Head(s), CSum(Tail(s)))

(***************************************************************************)
(* Phases and np.exp(2j*pi*x).                                             *)
(*                                                                         *)
(* A phase [q, d] is q quarter rotations plus d times the angle theta of   *)
(* the unit complex number (3+4i)/5 (theta/2pi is irrational, so d # 0 is  *)
(* a shift by a fractional number of bins for every nbin).  For these      *)
(* phases exp(2j*pi*x) = i^q * ((3+4i)/5)^d is exact.                      *)
(***************************************************************************)
Ph(q, d) == [q |-> q, d |-> d]
PAdd(a, b) == Ph(a.q + b.q, a.d + b.d)
PNeg(a) == Ph(0 - a.q, 0 - a.d)
PScale(k, a) == Ph(k * a.q, k * a.d)

IPow(q) ==
    CASE q % 4 = 0 -> Cx(R(1), R(0))
      [] q % 4 = 1 -> Cx(R(0), R(1))
      [] q % 4 = 2 -> Cx(R(0 - 1), R(0))
      [] q % 4 = 3 -> Cx(R(0), R(0 - 1))

UnitTheta == Cx(<<3, 5>>, <<4, 5>>)

\* np.exp(2j * pi * x)
ExpTwoPiI(x) ==
    CMul(IPow(x.q),
         IF x.d >= 0 THEN CPow(UnitTheta, x.d)
         ELSE CPow(CConj(UnitTheta), 0 - x.d))

(***************************************************************************)
(* numpy.fft.rfft and numpy.fft.irfft.  The values are modelled for the    *)
(* lengths whose roots of unity are powers of i (1, 2 and 4 bins); for     *)
(* the other lengths only the length of the result is modelled, and each   *)
(* value is Unmodelled.                                                    *)
(***************************************************************************)
Unmodelled == <<0, 0 - 1>>
UnmodelledC == Cx(Unmodelled, Unmodelled)
ExactLen(n) == n \in {1, 2, 4}
IsExact(x) == \A j \in 1..Len(x) : x[j] # Unmodelled
IsExactC(X) == \A k \in 1..Len(X) : X[k] # UnmodelledC

rfft_len(n) == (n \div 2) + 1
\* the default n of irfft for m harmonics is 2*(m-1)
irfft_len(m, n) == IF n = None THEN 2 * (m - 1) ELSE n[2]

\* exp(2j*pi*m/N) for N bins
Twiddle(N, m) == IPow((4 \div N) * m)

rfft(x) ==
    LET N == Len(x)
    IN  IF ExactLen(N) /\ IsExact(x)
        THEN [k \in 1..rfft_len(N) |->
                 CSum([j \in 1..N |->
                          CScale(x[j], Twiddle(N, 0 - (k - 1) * (j - 1)))])]
        ELSE [k \in 1..rfft_len(N) |-> UnmodelledC]

\* irfft(X, n): the imaginary parts of the zero and Nyquist harmonics are
\* discarded; X is cut or zero-padded to n/2+1 harmonics.
irfft(X, n) ==
    LET N == irfft_len(Len(X), n)
        m == rfft_len(N)
        H(k) == IF k <= Len(X) THEN X[k] ELSE CZero
        weight(k) == IF k = 1 \/ (N % 2 = 0 /\ k - 1 = N \div 2)
                     THEN R(1) ELSE R(2)
    IN  IF ExactLen(N) /\ IsExactC(X)
        THEN [j \in 1..N |->
                 RDiv(RSum([k \in 1..m |->
                               RMul(weight(k),
                                    CMul(H(k),
                                         Twiddle(N, (k - 1) * (j - 1))).re)]),
                      R(N))]
        ELSE [j \in 1..N |-> Unmodelled]

(***************************************************************************)
(* Frequencies.  A channel frequency is given by x = (nu_unit/freq)^2, so  *)
(* freq**-2 is x (in units of nu_unit**-2) and x = 0 is freq = inf.  The   *)
(* unit of DM is the one in which Dconst*DM/P is DM quarter rotations per  *)
(* nu_unit**-2.                                                            *)
(***************************************************************************)
Inf == 0
DconstOverP == 1

\* a variant that leaves the reference frequency out
Delay_NoReference(phase, D, freq, nu0) == PAdd(phase, Ph(D * freq, 0))

\* phase + D * (freq**-2.0 - nu0**-2.0)
Delay(phase, D, freq, nu0) == PAdd(phase, Ph(D * (freq - nu0), 0))

\* a variant whose harmonic index starts at one
Phasor_FromOne(k, delay) == ExpTwoPiI(PScale(k + 1, delay))

\* the phasor of pplib: np.exp(harmind * 2.0j * np.pi * delay), harmonic k
Phasor(k, delay) == ExpTwoPiI(PScale(k, delay))

MulRow(X, delay) ==
    [k \in 1..Len(X) |->
        IF X[k] = UnmodelledC THEN UnmodelledC
        ELSE CMul(X[k], Phasor(k - 1, delay))]

(***************************************************************************)
(* rotate_portrait (lines 674-689) and fft_rotate (lines 883-894).         *)
(***************************************************************************)
\* irfft is called without n: the result has 2*(nbin/2+1 - 1) bins.
rotate_portrait(port, phase, DM, P, freqs, nu0) ==
    [nn \in 1..Len(port) |->
        LET pFFT == rfft(port[nn])
            delay == IF DM = None /\ freqs = None THEN phase
                     ELSE Delay(phase, DM[2] * DconstOverP, freqs[2][nn], nu0)
        IN  irfft(MulRow(pFFT, delay), None)]

\* bins is given by the phase bins/arr.size it amounts to.
fft_rotate(arr, bins) ==
    irfft(MulRow(rfft(arr), bins), Num(Len(arr)))

(***************************************************************************)
(* The objective of the fit, its derivatives and the scales (pplib lines   *)
(* 251-319 and 660-672).  Phases and DMs are counted in quarter turns, so  *)
(* the derivatives are in units of (pi/2)**n.                              *)
(***************************************************************************)
RMap(rows) == [c \in 1..Len(rows) |-> rfft(rows[c])]

\* p = np.real(np.sum(mFFT * np.conj(mFFT), axis=1))
ModelPower(mFFT) ==
    [c \in 1..Len(mFFT) |->
        CSum([k \in 1..Len(mFFT[c]) |->
                 CMul(mFFT[c][k], CConj(mFFT[c][k]))]).re]

\* a variant that leaves the precisions out of the data power
DataPower_Unweighted(errs, dFFT) ==
    RSum([c \in 1..Len(dFFT) |-> ModelPower(dFFT)[c]])

\* d = np.real(np.sum(np.transpose(errs * np.transpose(dFFT*np.conj(dFFT)))))
DataPower(errs, dFFT) ==
    RSum([c \in 1..Len(dFFT) |-> RMul(errs[c], ModelPower(dFFT)[c])])

\* data[nn,:] * np.conj(model[nn,:]) * phasor
XCorr(drow, mrow, delay) ==
    [k \in 1..Len(mrow) |->
        CMul(CMul(drow[k], CConj(mrow[k])), Phasor(k - 1, delay))]

\* np.real(factor(harmind) * data * conj(model) * phasor).sum()
WeightedSum(x, w, n) ==
    CSum([k \in 1..Len(x) |-> CMul(CPow(Cx(R(0), R((k - 1) * w)), n), x[k])]).re

\* P == None or freqs == None: no dispersive delay.
ProfileOnly(P, freqs) == P = None \/ freqs = None

\* a variant that leaves the precisions out of the sum
fit_portrait_function_Flat(params, model, p, data, d, errs, P, freqs, nu0) ==
    LET D == IF ProfileOnly(P, freqs) THEN 0 ELSE DconstOverP * params[2]
        frs == IF ProfileOnly(P, freqs)
               THEN [c \in 1..Len(model) |-> Inf] ELSE freqs[2]
        m == RSum([nn \in 1..Len(frs) |->
                 LET mm == WeightedSum(
                               XCorr(data[nn], model[nn],
                                     Delay(Ph(params[1], 0), D, frs[nn], nu0)),
                               0, 0)
                 IN  RDiv(RMul(mm, mm), p[nn])])
    IN  RSub(d, m)

fit_portrait_function(params, model, p, data, d, errs, P, freqs, nu0) ==
    LET D == IF ProfileOnly(P, freqs) THEN 0 ELSE DconstOverP * params[2]
        frs == IF ProfileOnly(P, freqs)
               THEN [c \in 1..Len(model) |-> Inf] ELSE freqs[2]
        m == RSum([nn \in 1..Len(frs) |->
                 LET mm == WeightedSum(
                               XCorr(data[nn], model[nn],
                                     Delay(Ph(params[1], 0), D, frs[nn], nu0)),
                               0, 0)
                 IN  RDiv(RMul(RMul(mm, mm), errs[nn]), p[nn])])
    IN  RSub(d, m)

\* the derivatives divide by P and take len(freqs) without a test for None
DerivRaises(P, freqs) == P = None \/ freqs = None

\* a variant whose DM component takes the delays from infinite frequency
fit_portrait_function_deriv_NoRef(params, model, p, data, d, errs, P, freqs, nu0) ==
    LET D == DconstOverP * params[2]
        term(nn, w) ==
            LET x == XCorr(data[nn], model[nn],
                           Delay(Ph(params[1], 0), D, freqs[2][nn], nu0))
                g1 == WeightedSum(x, 0, 0)
                g2 == WeightedSum(x, w, 1)
            IN  RDiv(RMul(RMul(R(0 - 2), RMul(g1, g2)), errs[nn]), p[nn])
    IN  << RSum([nn \in 1..Len(freqs[2]) |-> term(nn, 1)]),
           RSum([nn \in 1..Len(freqs[2]) |->
                    term(nn, freqs[2][nn] * DconstOverP)]) >>

fit_portrait_function_deriv(params, model, p, data, d, errs, P, freqs, nu0) ==
    LET D == DconstOverP * params[2]
        term(nn, w) ==
            LET x == XCorr(data[nn], model[nn],
                           Delay(Ph(params[1], 0), D, freqs[2][nn], nu0))
                g1 == WeightedSum(x, 0, 0)
                g2 == WeightedSum(x, w, 1)
            IN  RDiv(RMul(RMul(R(0 - 2), RMul(g1, g2)), errs[nn]), p[nn])
    IN  << RSum([nn \in 1..Len(freqs[2]) |-> term(nn, 1)]),
           RSum([nn \in 1..Len(freqs[2]) |->
                    term(nn, (freqs[2][nn] - nu0) * DconstOverP)]) >>

fit_portrait_function_2deriv(params, model, p, data, d, errs, P, freqs, nu0) ==
    LET D == DconstOverP * params[2]
        term(nn, w) ==
            LET x == XCorr(data[nn], model[nn],
                           Delay(Ph(params[1], 0), D, freqs[2][nn], nu0))
                g1 == WeightedSum(x, 0, 0)
                g2 == WeightedSum(x, w, 1)
                g3 == WeightedSum(x, w, 2)
            IN  RDiv(RMul(RMul(R(0 - 2), errs[nn]),
                          RAdd(RMul(g2, g2), RMul(g1, g3))), p[nn])
    IN  << RSum([nn \in 1..Len(freqs[2]) |-> term(nn, 1)]),
           RSum([nn \in 1..Len(freqs[2]) |->
                    term(nn, (freqs[2][nn] - nu0) * DconstOverP)]) >>

\* a variant that clips negative scales to zero
get_scales_Clipped(data, model, phase, DM, P, freqs, nu0) ==
    LET dFFT == RMap(data)
        mFFT == RMap(model)
        p == ModelPower(mFFT)
        D == DM * DconstOverP
        clip(x) == IF x[2] # 0 /\ x[1] < 0 THEN R(0) ELSE x
    IN  [c \in 1..Len(model) |->
            clip(RSum([kk \in 1..Len(mFFT[1]) |->
                RDiv(CMul(CMul(dFFT[c][kk], CConj(mFFT[c][kk])),
                          Phasor(kk - 1,
                                 Delay(Ph(phase, 0), D, freqs[2][c], nu0))).re,
                     p[c])]))]

get_scales(data, model, phase, DM, P, freqs, nu0) ==
    LET dFFT == RMap(data)
        mFFT == RMap(model)
        p == ModelPower(mFFT)
        D == DM * DconstOverP
    IN  [c \in 1..Len(model) |->
            RSum([kk \in 1..Len(mFFT[1]) |->
                RDiv(CMul(CMul(dFFT[c][kk], CConj(mFFT[c][kk])),
                          Phasor(kk - 1,
                                 Delay(Ph(phase, 0), D, freqs[2][c], nu0))).re,
                     p[c])])]

(***************************************************************************)
(* Calls of the rotation functions: rotate a portrait, then rotate the     *)
(* result back.                                                            *)
(***************************************************************************)
MaxBins == 5
MaxRotChan == 2

\* get_TOAs is not running while a pplib function is called on its own.
NoGetTOAs ==
    /\ pc = "idle"
    /\ args = [fit_DM |-> TRUE, fit_GM |-> FALSE, fit_scat |-> FALSE,
               fix_alpha |-> FALSE, log10_tau |-> TRUE, bary_DM |-> TRUE,
               method |-> "trust-ncg", bounds |-> None, DM0 |-> None]
    /\ gt = GetTOAsInit
    /\ loc = NoLocals
    /\ err = NoError

Profiles(n) ==
    IF n = 2 THEN [1..2 -> {R(0), R(1), R(2)}]
    ELSE IF n = 4 THEN [1..4 -> {R(0), R(1)}]
    ELSE {[j \in 1..n |-> Unmodelled]}

Ports ==
    UNION { UNION { [1..nchan -> Profiles(n)] : nchan \in 1..MaxRotChan } :
            n \in 2..MaxBins }

Shifts == {Ph(q, d) : q \in 0..1, d \in (0 - 1)..1}

\* the channel frequencies of the portraits: freq**-2 = 1, 2, ...
RotFreqs(nchan) == Arr([c \in 1..nchan |-> c])

InitRot ==
    /\ NoGetTOAs
    /\ \E port \in Ports, phase \in Shifts, DM \in {None, Num(1)},
          fn \in {"rotate_portrait", "fft_rotate"} :
         /\ fn = "fft_rotate" => (Len(port) = 1 /\ DM = None)
         /\ call = [fn |-> fn, stage |-> "called", port |-> port,
                    phase |-> phase, DM |-> DM,
                    freqs |-> IF DM = None THEN None
                              ELSE RotFreqs(Len(port)),
                    out |-> <<>>, back |-> <<>>]

Negated(DM) == IF DM = None THEN None ELSE Num(0 - DM[2])

Rotated(fn, port, phase, DM, freqs) ==
    IF fn = "rotate_portrait"
    THEN rotate_portrait(port, phase, DM, 1, freqs, Inf)
    ELSE <<fft_rotate(port[1], phase)>>

Rotate ==
    /\ call.stage = "called"
    /\ call' = [call EXCEPT
                  !.stage = "rotated",
                  !.out = Rotated(call.fn, call.port, call.phase, call.DM,
                                  call.freqs)]
    /\ UNCHANGED <<pc, args, gt, loc, err>>

RotateBack ==
    /\ call.stage = "rotated"
    /\ call' = [call EXCEPT
                  !.stage = "restored",
                  !.back = Rotated(call.fn, call.out, PNeg(call.phase),
                                   Negated(call.DM), call.freqs)]
    /\ UNCHANGED <<pc, args, gt, loc, err>>

NextRot ==
    \/ Rotate
    \/ RotateBack

SpecRot == InitRot /\ [][NextRot]_vars

(***************************************************************************)
(* Properties of the rotation functions.                                   *)
(***************************************************************************)
Shape(port) == <<Len(port), Len(port[1])>>
ExactPort(port) == \A c \in 1..Len(port) : IsExact(port[c])

\* the harmonic nbin/2 of a profile with an even number of bins
RECURSIVE AlternatingSum(_)
AlternatingSum(x) ==
    IF x = <<>> THEN R(0) ELSE RSub(Head(x), AlternatingSum(Tail(x)))

NyquistZero(port) ==
    \A c \in 1..Len(port) : AlternatingSum(port[c]) = R(0)

\* the shift is a whole number of bins
WholeBins(phase, nbin) == phase.d = 0 /\ (phase.q * nbin) % 4 = 0

C7_SameShape ==
    call.stage \in {"rotated", "restored"}
        => Shape(call.out) = Shape(call.port)

(***************************************************************************)
(* Calls of the objective, its derivatives and get_scales on portraits of  *)
(* four bins: a model, and data made from it as make_fake_pulsar does.     *)
(***************************************************************************)
MaxObjChan == 2

ObjProfiles ==
    { <<R(0), R(0), R(0), R(0)>>, <<R(1), R(0), R(0), R(0)>>,
      <<R(2), R(1), R(0), R(1)>> }

ObjModels == UNION { [1..nchan -> ObjProfiles] : nchan \in 1..MaxObjChan }

\* per-channel amplitudes, precisions and (phase, DM) pairs
TrueScales == { [c \in 1..MaxObjChan |-> 1],
                [c \in 1..MaxObjChan |-> IF c = 1 THEN 2 ELSE 0 - 1],
                [c \in 1..MaxObjChan |-> IF c = 1 THEN 0 - 1 ELSE 2] }
Precisions == { [c \in 1..MaxObjChan |-> R(1)],
                [c \in 1..MaxObjChan |-> R(1 + c)],
                [c \in 1..MaxObjChan |-> R(c - 1)] }
ParamPairs == { <<0, 0>>, <<1, 0>>, <<1, 1>> }

ScaleRow(a, row) == [j \in 1..Len(row) |-> RMul(R(a), row[j])]

\* port = rotate_portrait(model, -phase, -DM, P, freqs, nu0) + noise, for
\* a model with the amplitude a[c] in channel c; the noise is one count in
\* the first bin of the first channel
FakePortrait(model, a, truth, noise, nu0) ==
    LET port == rotate_portrait(
                    [c \in 1..Len(model) |-> ScaleRow(a[c], model[c])],
                    Ph(0 - truth[1], 0), Num(0 - truth[2]), Num(1),
                    RotFreqs(Len(model)), nu0)
    IN  IF noise
        THEN [port EXCEPT ![1][1] = RAdd(port[1][1], R(1))]
        ELSE port

InitObj ==
    /\ NoGetTOAs
    /\ \E model \in ObjModels, a \in TrueScales, truth \in ParamPairs,
          noise \in BOOL, params \in ParamPairs, errs \in Precisions,
          given \in BOOL, nu0 \in {Inf, 1} :
       \E data \in {FakePortrait(model, a, truth, noise, nu0)} :
       \E mFFT \in {RMap(model)}, dFFT \in {RMap(data)} :
         call = [fn |-> "none", stage |-> "ready", model |-> model,
                 data |-> data, mFFT |-> mFFT, dFFT |-> dFFT,
                 p |-> ModelPower(mFFT), d |-> DataPower(errs, dFFT),
                 errs |-> [c \in 1..Len(model) |-> errs[c]],
                 P |-> IF given THEN Num(1) ELSE None,
                 freqs |-> IF given THEN RotFreqs(Len(model)) ELSE None,
                 nu0 |-> nu0, params |-> params, value |-> <<>>]

\* mFFT, dFFT, p and d are the arguments fit_portrait hands to the objective
\* and its derivatives.
CallFunction ==
    /\ call.stage = "ready"
    /\ call' = [call EXCEPT
                  !.fn = "fit_portrait_function",
                  !.stage = "returned",
                  !.value = fit_portrait_function(call.params, call.mFFT,
                                call.p, call.dFFT, call.d,
                                call.errs, call.P, call.freqs, call.nu0)]
    /\ UNCHANGED <<pc, args, gt, loc, err>>

CallDeriv ==
    /\ call.stage = "ready"
    /\ call' = IF DerivRaises(call.P, call.freqs)
               THEN [call EXCEPT !.fn = "fit_portrait_function_deriv",
                                 !.stage = "raised"]
               ELSE [call EXCEPT
                       !.fn = "fit_portrait_function_deriv",
                       !.stage = "returned",
                       !.value = fit_portrait_function_deriv(call.params,
                                     call.mFFT, call.p, call.dFFT,
                                     call.d, call.errs, call.P,
                                     call.freqs, call.nu0)]
    /\ UNCHANGED <<pc, args, gt, loc, err>>

Call2Deriv ==
    /\ call.stage = "ready"
    /\ call' = IF DerivRaises(call.P, call.freqs)
               THEN [call EXCEPT !.fn = "fit_portrait_function_2deriv",
                                 !.stage = "raised"]
               ELSE [call EXCEPT
                       !.fn = "fit_portrait_function_2deriv",
                       !.stage = "returned",
                       !.value = fit_portrait_function_2deriv(call.params,
                                     call.mFFT, call.p, call.dFFT,
                                     call.d, call.errs, call.P,
                                     call.freqs, call.nu0)]
    /\ UNCHANGED <<pc, args, gt, loc, err>>

\* D = DM * Dconst / P and pow(freqs,-2) raise for None
ScalesRaise(P, freqs) == P = None \/ freqs = None

CallScales ==
    /\ call.stage = "ready"
    /\ call' = IF ScalesRaise(call.P, call.freqs)
               THEN [call EXCEPT !.fn = "get_scales", !.stage = "raised"]
               ELSE [call EXCEPT
                       !.fn = "get_scales",
                       !.stage = "returned",
                       !.value = get_scales(call.data, call.model,
                                     call.params[1], call.params[2], call.P,
                                     call.freqs, call.nu0)]
    /\ UNCHANGED <<pc, args, gt, loc, err>>

NextObj ==
    \/ CallFunction
    \/ CallDeriv
    \/ Call2Deriv
    \/ CallScales

SpecObj == InitObj /\ [][NextObj]_vars

(***************************************************************************)
(* Properties of the objective and of the scales.                          *)
(***************************************************************************)
Amplitudes == (0 - 2)..2

\* the delay of channel c at the parameters of the call
DelayAt(c) ==
    IF ProfileOnly(call.P, call.freqs) THEN Ph(call.params[1], 0)
    ELSE Ph(call.params[1]
            + DconstOverP * call.params[2] * (call.freqs[2][c] - call.nu0), 0)

\* g1 of channel c at a delay: the real part of sum_k D[k] conj(M[k]) e(k)
G1(c, delay) ==
    RSum([k \in 1..Len(call.mFFT[c]) |->
             CMul(CMul(call.dFFT[c][k], CConj(call.mFFT[c][k])),
                  ExpTwoPiI(PScale(k - 1, delay))).re])

\* the harmonic data of channel c is a * model * exp(-2 pi i k delay)
IsScaledModel(c, a, delay) ==
    \A k \in 1..Len(call.mFFT[c]) :
        call.dFFT[c][k] =
            CMul(CScale(R(a), call.mFFT[c][k]),
                 ExpTwoPiI(PScale(k - 1, PNeg(delay))))

PerfectFit ==
    \A c \in 1..Len(call.model) :
        \E a \in Amplitudes : IsScaledModel(c, a, DelayAt(c))

HasPower == \A c \in 1..Len(call.model) : call.p[c] # R(0)

\* C8: fit_portrait_function returns d - sum_c g1_c^2 errs_c / p_c, and at
\* a perfect fit (the data of every channel is a real multiple of the model
\* delayed as the parameters say) of a model with power the value is 0.
C8_PerfectFitIsZero ==
    (call.fn = "fit_portrait_function" /\ call.stage = "returned")
        => /\ call.value =
                RSub(call.d,
                     RSum([c \in 1..Len(call.model) |->
                              RDiv(RMul(RMul(G1(c, DelayAt(c)),
                                             G1(c, DelayAt(c))),
                                        call.errs[c]),
                                   call.p[c])]))
           /\ (PerfectFit /\ HasPower) => call.value = R(0)

C8_Witness ==
    /\ call.fn = "fit_portrait_function" /\ call.stage = "returned"
    /\ PerfectFit /\ HasPower
    /\ Len(call.model) = 2
    /\ call.freqs # None
    /\ call.params = <<1, 1>>
    /\ call.errs[2] # R(1)
    /\ \E c \in 1..2 : IsScaledModel(c, 0 - 1, DelayAt(c))
    /\ call.d # R(0)
    /\ call.value = R(0)

\* C10: get_scales returns g1_c / p_c for every channel with model power,
\* at the delay the objective uses, and does not clip: when the data of the
\* channel is a times the model and the delay is zero, the scale is a, also
\* for a negative a.
C10_ScalesAreG1OverP ==
    (call.fn = "get_scales" /\ call.stage = "returned")
        => \A c \in 1..Len(call.model) :
              call.p[c] # R(0) =>
                 /\ call.value[c] = RDiv(G1(c, DelayAt(c)), call.p[c])
                 /\ \A a \in Amplitudes :
                       (call.data[c] = ScaleRow(a, call.model[c])
                        /\ DelayAt(c) = Ph(0, 0))
                           => call.value[c] = R(a)

C10_Witness ==
    /\ call.fn = "get_scales" /\ call.stage = "returned"
    /\ Len(call.model) = 2
    /\ \A c \in 1..2 : call.p[c] # R(0) /\ DelayAt(c) = Ph(0, 0)
    /\ call.data[1] = ScaleRow(2, call.model[1])
    /\ call.data[2] = ScaleRow(0 - 1, call.model[2])
    /\ call.value = <<R(2), R(0 - 1)>>

(***************************************************************************)
(* fit_portrait (pplib lines 500-555).  scipy's minimize is the caller of  *)
(* the objective and of its gradient: it evaluates them at init_params,    *)
(* then at iterates of its choice, and stops with any status and success.  *)
(***************************************************************************)
MaxFitChan == 2
MaxEval == 2

RCSTRINGS ==
    [rc \in (0 - 1)..7 |->
        CASE rc = 0 - 1 -> "INFEASIBLE"
          [] rc = 0 -> "LOCALMINIMUM"
          [] rc = 1 -> "FCONVERGED"
          [] rc = 2 -> "XCONVERGED"
          [] rc = 3 -> "MAXFUN"
          [] rc = 4 -> "LSFAIL"
          [] rc = 5 -> "CONSTANT"
          [] rc = 6 -> "NOPROGRESS"
          [] rc = 7 -> "USERABORT"]

\* x[-len(x)/4:] in Python 2: the last ceil(len/4) items
LastQuarter(x) == SubSeq(x, Len(x) - ((Len(x) + 3) \div 4) + 1, Len(x))

\* np.real(x).std()**-2.0: one over the mean squared deviation from the mean
StdPowMinus2(x) ==
    LET re == [k \in 1..Len(x) |-> x[k].re]
        mean == RDiv(RSum(re), R(Len(x)))
        var == RDiv(RSum([k \in 1..Len(x) |->
                            RMul(RSub(re[k], mean), RSub(re[k], mean))]),
                    R(Len(x)))
    IN  RInv(var)

\* unnorm_errs = np.real(dFFT[:, -len(dFFT[0])/4:]).std(axis=1)**-2.0
NoisePrecision(dFFT) ==
    [c \in 1..Len(dFFT) |-> StdPowMinus2(LastQuarter(dFFT[c]))]

\* pow(x, -0.5) is kept as a term in x
PowMinusHalf(x) == <<"pow(x, -0.5) of x =", x>>

NoOptResult == [status |-> "none"]
NoReturn == [phi |-> "none"]

FitModels ==
    UNION { [1..nchan -> {<<R(1), R(0), R(0), R(0)>>,
                          <<R(2), R(1), R(0), R(1)>>}] :
            nchan \in 1..MaxFitChan }

InitFit ==
    /\ NoGetTOAs
    /\ \E model \in FitModels, noise \in BOOL,
          init_params \in {<<0, 0>>, <<1, 0>>}, given \in BOOL,
          scales \in BOOL, quiet \in BOOL :
         call = [fn |-> "fit_portrait", stage |-> "called",
                 data |-> FakePortrait(model, [c \in 1..MaxFitChan |-> 2],
                                       <<1, 1>>, noise, Inf),
                 model |-> model, init_params |-> init_params,
                 P |-> IF given THEN Num(1) ELSE None,
                 freqs |-> IF given THEN RotFreqs(Len(model)) ELSE None,
                 nu0 |-> Inf, scales |-> scales, quiet |-> quiet,
                 dFFT |-> <<>>, mFFT |-> <<>>, errs |-> <<>>, d |-> R(0),
                 p |-> <<>>, x |-> init_params, fun |-> R(0),
                 jac |-> <<>>, nfev |-> 0, nminimize |-> 0,
                 results |-> NoOptResult, stderr |-> <<>>,
                 curvature |-> <<>>, ret |-> NoReturn]

\* lines 508-517
FitPrepare ==
    /\ call.stage = "called"
    /\ \E dFFT \in {RMap(call.data)}, mFFT \in {RMap(call.model)} :
       \E errs \in {NoisePrecision(dFFT)} :
         call' = [call EXCEPT !.stage = "minimizing",
                              !.dFFT = dFFT, !.mFFT = mFFT, !.errs = errs,
                              !.d = DataPower(errs, dFFT),
                              !.p = ModelPower(mFFT),
                              !.nminimize = call.nminimize + 1]
    /\ UNCHANGED <<pc, args, gt, loc, err>>

\* minimize evaluates the objective and its gradient at an iterate; the
\* gradient raises when P or freqs is None
OptEvaluate ==
    /\ call.stage = "minimizing"
    /\ call.nfev < MaxEval
    /\ \E x \in IF call.nfev = 0 THEN {call.init_params} ELSE ParamPairs :
         call' = IF DerivRaises(call.P, call.freqs)
                 THEN [call EXCEPT !.stage = "raised"]
                 ELSE [call EXCEPT
                         !.x = x,
                         !.nfev = call.nfev + 1,
                         !.fun = fit_portrait_function(x, call.mFFT, call.p,
                                     call.dFFT, call.d, call.errs, call.P,
                                     call.freqs, call.nu0),
                         !.jac = fit_portrait_function_deriv(x, call.mFFT,
                                     call.p, call.dFFT, call.d, call.errs,
                                     call.P, call.freqs, call.nu0)]
    /\ UNCHANGED <<pc, args, gt, loc, err>>

\* minimize returns its last iterate with a status and a success flag
OptStop ==
    /\ call.stage = "minimizing"
    /\ call.nfev >= 1
    /\ \E status \in DOMAIN RCSTRINGS, success \in BOOL :
         call' = [call EXCEPT
                    !.stage = "minimized",
                    !.results = [x |-> call.x, fun |-> call.fun,
                                 nfev |-> call.nfev, status |-> status,
                                 success |-> success]]
    /\ UNCHANGED <<pc, args, gt, loc, err>>

\* lines 535-541: what fit_portrait writes to stderr
FitMessages(results, quiet) ==
    (IF results.success # TRUE
     THEN << <<"Fit failed with return code", results.status,
               RCSTRINGS[results.status]>> >>
     ELSE <<>>)
    \o (IF ~quiet /\ results.success = TRUE
        THEN << <<"Fit suceeded with return code", results.status,
                  RCSTRINGS[results.status]>> >>
        ELSE <<>>)

\* a variant that returns zeros for an unsuccessful fit
FitReturnValue_ZeroOnFailure(results, curvature, DoF, scales, scale_errs) ==
    [phi |-> IF results.success THEN results.x[1] ELSE 0,
     DM |-> IF results.success THEN results.x[2] ELSE 0,
     nfeval |-> results.nfev,
     return_code |-> results.status, scales |-> scales,
     param_errs |-> [i \in 1..Len(curvature) |-> PowMinusHalf(curvature[i])]
                    \o scale_errs,
     red_chi2 |-> RDiv(results.fun, R(DoF))]

\* lines 531-534 and 546-555: the tuple fit_portrait returns
FitReturnValue(results, curvature, DoF, scales, scale_errs) ==
    [phi |-> results.x[1], DM |-> results.x[2], nfeval |-> results.nfev,
     return_code |-> results.status, scales |-> scales,
     param_errs |-> [i \in 1..Len(curvature) |-> PowMinusHalf(curvature[i])]
                    \o scale_errs,
     red_chi2 |-> RDiv(results.fun, R(DoF))]

FitReturn ==
    /\ call.stage = "minimized"
    /\ LET results == call.results
           curvature == fit_portrait_function_2deriv(results.x, call.mFFT,
                            call.p, call.dFFT, call.d, call.errs, call.P,
                            call.freqs, call.nu0)
           DoF == Len(call.data) * Len(call.data[1])
                  - (Len(call.freqs[2]) + 2)
       IN  call' = [call EXCEPT
                      !.stage = "returned",
                      !.stderr = call.stderr
                                 \o FitMessages(results, call.quiet),
                      !.curvature = curvature,
                      !.ret = IF call.scales
                              THEN FitReturnValue(results, curvature, DoF,
                                       get_scales(call.data, call.model,
                                           results.x[1], results.x[2],
                                           call.P, call.freqs, call.nu0),
                                       [c \in 1..Len(call.p) |->
                                           PowMinusHalf(
                                               RMul(R(2), RMul(call.p[c],
                                                   call.errs[c])))])
                              ELSE FitReturnValue(results, curvature, DoF,
                                       None, <<>>)]
    /\ UNCHANGED <<pc, args, gt, loc, err>>

NextFit ==
    \/ FitPrepare
    \/ OptEvaluate
    \/ OptStop
    \/ FitReturn

SpecFit == InitFit /\ [][NextFit]_vars

(***************************************************************************)
(* Properties of fit_portrait.                                             *)
(***************************************************************************)
\* C5: for every status from -1 to 7 and either value of success,
\* fit_portrait returns the last iterate of the optimizer with its nfev and
\* status; an unsuccessful fit writes one message to stderr, minimize is
\* called once, and nothing is raised once the optimizer has returned.
C5_ReturnsLastIterate ==
    /\ call.stage = "returned" =>
          /\ call.ret.phi = call.results.x[1]
          /\ call.ret.DM = call.results.x[2]
          /\ call.ret.nfeval = call.results.nfev
          /\ call.ret.return_code = call.results.status
          /\ call.nminimize = 1
          /\ ~call.results.success =>
                call.stderr = << <<"Fit failed with return code",
                                   call.results.status,
                                   RCSTRINGS[call.results.status]>> >>
    /\ call.stage = "raised" => call.results = NoOptResult
    /\ call.stage \in {"minimized", "returned"} =>
          call.results.status \in (0 - 1)..7

C5_Witness ==
    /\ call.stage = "returned"
    /\ ~call.results.success
    /\ call.results.status = 4
    /\ call.results.x = <<1, 1>>
    /\ call.results.x # call.init_params
    /\ call.ret.phi = 1 /\ call.ret.DM = 1
    /\ call.ret.return_code = 4
    /\ Len(call.stderr) = 1

\* C9: the curvature is the full Hessian of the phase/DM pair (the two
\* diagonal second derivatives and the mixed one) and the phase and DM
\* uncertainties are the diagonal of its inverse to the power 0.5.
C9_FullHessian ==
    call.stage = "returned" =>
        /\ Len(call.curvature) = 3
        /\ call.ret.param_errs[1] =
              PowMinusHalf(RSub(call.curvature[1],
                                RDiv(RMul(call.curvature[3],
                                          call.curvature[3]),
                                     call.curvature[2])))
        /\ call.ret.param_errs[2] =
              PowMinusHalf(RSub(call.curvature[2],
                                RDiv(RMul(call.curvature[3],
                                          call.curvature[3]),
                                     call.curvature[1])))

(***************************************************************************)
(* Channels whose model has no power.                                      *)
(***************************************************************************)
\* C11: when the model of a channel has zero power, get_scales returns the
\* scale 0 for that channel, and fit_portrait_function returns a finite
\* value.
C11_ZeroPowerIsFinite ==
    (call.stage = "returned"
     /\ \E c \in 1..Len(call.model) : call.p[c] = R(0))
        => /\ call.fn = "get_scales" =>
                \A c \in 1..Len(call.model) :
                    call.p[c] = R(0) => call.value[c] = R(0)
           /\ call.fn = "fit_portrait_function" => RIsFinite(call.value)

(***************************************************************************)
(* The Gaussian template (pplib lines 68-169).  A Gaussian of FWHM wid at  *)
(* the phase offset x has the value exp(-0.5*(x/sigma)**2) = 16**-q with   *)
(* q = (x/wid)**2, so a bin of a profile is the term <<"pow16", q>>, its   *)
(* negative <<"-pow16", q>>, or zero.                                      *)
(***************************************************************************)
RLt(a, b) == a[1] * b[2] < b[1] * a[2]
RAbs(a) == <<Abs(a[1]), a[2]>>
\* x % 1.0
RMod1(a) == RNorm(a[1] % a[2], a[2])

GZero == <<"zero", R(0)>>

\* np.fabs(zs) < 20.0 is q < 400/(8 ln 2) = 72.1347...
ZCut == <<7213, 100>>

PhaseOffsets_NoWrap(N, loc_) == [i \in 1..N |-> RSub(RDiv(R(i - 1), R(N)), RMod1(loc_))]

\* lines 96-101 and locval - mean of line 103
PhaseOffsets(N, loc_) ==
    LET mean == RMod1(loc_)
        half == <<1, 2>>
    IN  [i \in 1..N |->
            LET locval == RDiv(R(i - 1), R(N))
            IN  RSub(IF RLt(mean, half)
                     THEN (IF RLt(RAdd(mean, half), locval)
                           THEN RSub(locval, R(1)) ELSE locval)
                     ELSE (IF RLt(locval, RSub(mean, half))
                           THEN RAdd(locval, R(1)) ELSE locval),
                     mean)]

\* lines 95-117 with norm=False: the values where np.fabs(zs) < 20.0, divided
\* by the largest of them
GaussianValues(N, loc_, wid) ==
    Only({ IF okzinds = {} THEN [i \in 1..N |-> GZero]
           ELSE LET sign == IF RLt(wid, R(0)) THEN "-pow16" ELSE "pow16"
                    m == CHOOSE i \in okzinds :
                             \A j \in okzinds : RLeq(q[i], q[j])
                IN  [i \in 1..N |->
                        IF i \in okzinds
                        THEN <<sign, RSub(q[i], q[m])>> ELSE GZero] :
           q \in {SubSeq([i \in 1..N |->
                            RMul(RDiv(PhaseOffsets(N, loc_)[i], wid),
                                 RDiv(PhaseOffsets(N, loc_)[i], wid))], 1, N)},
           okzinds \in {{i \in 1..N :
                            RLt(RMul(RDiv(PhaseOffsets(N, loc_)[i], wid),
                                     RDiv(PhaseOffsets(N, loc_)[i], wid)),
                                ZCut)}} })

gaussian_profile_NoGuard(N, loc_, wid0, abs_wid, zeroout) == GaussianValues(N, loc_, wid0)

\* lines 83-94, then the evaluation
gaussian_profile(N, loc_, wid0, abs_wid, zeroout) ==
    LET wid == IF abs_wid THEN RAbs(wid0) ELSE wid0
    IN  IF wid = R(0) \/ (RLt(wid, R(0)) /\ zeroout)
        THEN [i \in 1..N |-> GZero]
        ELSE GaussianValues(N, loc_, wid)

\* x[start::step]
PySlice(x, start, step) ==
    [j \in 1..((Len(x) - start + step - 1) \div step) |->
        x[start + 1 + (j - 1) * step]]

\* np.exp((np.log(f) - np.log(nu_ref)) * index + np.log(amp)): the amplitude
\* amp * (f/nu_ref)**index as <<amp, f/nu_ref, index>>; log of a negative
\* amp is nan, and of a zero amp -inf
AmpAt(amp, index, f, nu_ref) ==
    IF RLt(amp, R(0)) THEN <<RNaN, R(1), R(0)>>
    ELSE IF amp = R(0) THEN <<R(0), R(1), R(0)>>
    ELSE IF f = nu_ref \/ index = R(0) THEN <<amp, R(1), R(0)>>
    ELSE <<amp, RDiv(R(f), R(nu_ref)), index>>

\* a bin of the model is dc + the sum of the terms amp * value that are not
\* zero; it is nan when an amplitude is
gen_gaussian_profile(params, N) ==
    LET ngauss == (Len(params) - 1) \div 3
        amp(ii) == params[4 + (ii - 1) * 3]
        NonZero(t) == t[1][1] # R(0) /\ t[2] # GZero
    IN  Only({ [i \in 1..N |->
                  [dc |-> params[1],
                   nan |-> \E ii \in 1..ngauss : amp(ii)[1] = RNaN,
                   terms |-> SelectSeq([ii \in 1..ngauss |->
                                           <<amp(ii), prof[ii][i]>>],
                                       NonZero)]] :
               prof \in {SubSeq([ii \in 1..ngauss |->
                            SubSeq(gaussian_profile(N,
                                       params[2 + (ii - 1) * 3],
                                       params[3 + (ii - 1) * 3], FALSE, TRUE),
                                   1, N)], 1, ngauss)} })

\* lines 156-169
GaussianPortraitAt(refparams, locparams, widparams, ampparams, nbin, freqs, nu_ref) ==
    LET gparams(nn) ==
            [j \in 1..Len(refparams) |->
                IF j = 1 THEN refparams[1]
                ELSE LET g == (j + 1) \div 3
                     IN  CASE j % 3 = 2 ->
                                RAdd(RMul(R(freqs[nn] - nu_ref), locparams[g]),
                                     PySlice(refparams, 1, 3)[g])
                           [] j % 3 = 0 ->
                                RAdd(RMul(R(freqs[nn] - nu_ref), widparams[g]),
                                     PySlice(refparams, 2, 3)[g])
                           [] j % 3 = 1 ->
                                AmpAt(PySlice(refparams, 3, 3)[g],
                                      ampparams[g], freqs[nn], nu_ref)]
    IN  [nn \in 1..Len(freqs) |-> gen_gaussian_profile(gparams(nn), nbin)]

gen_gaussian_portrait_Swapped(params, nbin, freqs, nu_ref) == GaussianPortraitAt(<<params[1]>> \o PySlice(params, 1, 2), PySlice(params, 4, 6), PySlice(params, 2, 6), PySlice(params, 6, 6), nbin, freqs, nu_ref)

\* lines 142-147: refparams, locparams, widparams, ampparams
gen_gaussian_portrait(params, nbin, freqs, nu_ref) ==
    GaussianPortraitAt(<<params[1]>> \o PySlice(params, 1, 2),
                       PySlice(params, 2, 6), PySlice(params, 4, 6),
                       PySlice(params, 6, 6), nbin, freqs, nu_ref)

(***************************************************************************)
(* Calls of the template generator: gaussian_profile on its own, and       *)
(* gen_gaussian_portrait on a parameter vector of MaxGauss components at   *)
(* most, as read_model builds it.                                          *)
(***************************************************************************)
MaxGauss == 2
MaxGaussBins == 5

GaussLocs == {RNorm(k, 8) : k \in (0 - 9)..9}
GaussWids == {R(0), <<0 - 1, 4>>, <<1, 4>>, <<1, 32>>}
PortFreqs == <<1, 2, 4>>

\* a line of a model file: loc, its slope, wid, its slope, amp, its index
GaussComponents ==
    {<<l, ls, <<1, 4>>, ws, a[1], a[2]>> :
        l \in {<<1, 4>>, <<3, 4>>}, ls \in {R(0), <<1, 8>>},
        ws \in {R(0), <<0 - 1, 8>>, <<0 - 1, 4>>},
        a \in {<<R(1), R(0)>>, <<R(2), R(0 - 2)>>, <<R(0), R(1)>>,
               <<R(0 - 1), R(0)>>}}

\* read_model: params[0] is the DC term, params[1 + gg*6:7 + gg*6] a component
RECURSIVE ParamsOf(_)
ParamsOf(ngauss) ==
    IF ngauss = 0 THEN {<<dc>> : dc \in {R(0), R(1)}}
    ELSE {prms \o c : prms \in ParamsOf(ngauss - 1), c \in GaussComponents}

ModelParams == UNION {ParamsOf(ngauss) : ngauss \in 1..MaxGauss}

InitGauss ==
    /\ NoGetTOAs
    /\ \/ \E N \in 1..MaxGaussBins, l \in GaussLocs, w \in GaussWids,
            a \in BOOL, z \in BOOL :
              call = [fn |-> "gaussian_profile", stage |-> "ready", N |-> N,
                      loc |-> l, wid |-> w, abs_wid |-> a, zeroout |-> z,
                      params |-> <<>>, freqs |-> <<>>, nu_ref |-> 0,
                      offsets |-> <<>>, value |-> <<>>]
       \/ \E prms \in ModelParams, nu \in {2, 4} :
              call = [fn |-> "gen_gaussian_portrait", stage |-> "ready",
                      N |-> MaxGaussBins - 1, loc |-> R(0), wid |-> R(0),
                      abs_wid |-> FALSE, zeroout |-> TRUE, params |-> prms,
                      freqs |-> PortFreqs, nu_ref |-> nu, offsets |-> <<>>,
                      value |-> <<>>]

\* offsets holds locval - mean when the Gaussian is evaluated
CallGaussianProfile ==
    /\ call.fn = "gaussian_profile" /\ call.stage = "ready"
    /\ \E w \in {IF call.abs_wid THEN RAbs(call.wid) ELSE call.wid} :
         call' = [call EXCEPT
            !.stage = "returned",
            !.offsets = IF w = R(0) \/ (RLt(w, R(0)) /\ call.zeroout)
                        THEN <<>> ELSE PhaseOffsets(call.N, call.loc),
            !.value = gaussian_profile(call.N, call.loc, call.wid,
                                       call.abs_wid, call.zeroout)]
    /\ UNCHANGED <<pc, args, gt, loc, err>>

CallGenGaussianPortrait ==
    /\ call.fn = "gen_gaussian_portrait" /\ call.stage = "ready"
    /\ call' = [call EXCEPT
          !.stage = "returned",
          !.value = gen_gaussian_portrait(call.params, call.N, call.freqs,
                                          call.nu_ref)]
    /\ UNCHANGED <<pc, args, gt, loc, err>>

NextGauss == CallGaussianProfile \/ CallGenGaussianPortrait

SpecGauss == InitGauss /\ [][NextGauss]_vars

(***************************************************************************)
(* Properties of the template generator.                                   *)
(***************************************************************************)
NGauss(params) == (Len(params) - 1) \div 6
\* component g of a parameter vector: its six entries start after the DC term
\* and the components before it
Entry(params, g, k) == params[1 + 6 * (g - 1) + k]
WithoutComponent(params, g) ==
    SubSeq(params, 1, 1 + 6 * (g - 1))
        \o SubSeq(params, 2 + 6 * g, Len(params))
EvolvedLoc(params, g, f, nu_ref) ==
    RAdd(Entry(params, g, 1), RMul(Entry(params, g, 2), R(f - nu_ref)))
EvolvedWidth(params, g, f, nu_ref) ==
    RAdd(Entry(params, g, 3), RMul(Entry(params, g, 4), R(f - nu_ref)))
GaussReturned(fn) == call.fn = fn /\ call.stage = "returned"

\* C12: called with the defaults of the template generator and a width that
\* is zero or negative, gaussian_profile returns N zeros; and a component
\* (of amplitude >= 0) whose width evolved to the frequency of a channel is
\* zero or negative leaves that channel as it is without the component.
C12_NonPositiveWidthIsZero ==
    /\ (GaussReturned("gaussian_profile") /\ ~call.abs_wid /\ call.zeroout
        /\ RLeq(call.wid, R(0)))
           => call.value = [i \in 1..call.N |-> GZero]
    /\ GaussReturned("gen_gaussian_portrait") =>
           \A nn \in 1..Len(call.freqs), g \in 1..NGauss(call.params) :
               (/\ RLeq(EvolvedWidth(call.params, g, call.freqs[nn],
                                     call.nu_ref), R(0))
                /\ RLeq(R(0), Entry(call.params, g, 5)))
                   => call.value[nn] =
                          gen_gaussian_portrait(
                              WithoutComponent(call.params, g), call.N,
                              call.freqs, call.nu_ref)[nn]

\* a two-component template whose second component has a negative width in a
\* channel where the first one is seen, and a direct call with a negative width
C12_Witness ==
    \/ /\ GaussReturned("gen_gaussian_portrait")
       /\ NGauss(call.params) = 2
       /\ \E nn \in 1..Len(call.freqs) :
             /\ RLt(EvolvedWidth(call.params, 2, call.freqs[nn], call.nu_ref),
                    R(0))
             /\ RLt(R(0), Entry(call.params, 2, 5))
             /\ \A i \in 1..call.N : Len(call.value[nn][i].terms) = 1
    \/ /\ GaussReturned("gaussian_profile") /\ ~call.abs_wid /\ call.zeroout
       /\ RLt(call.wid, R(0)) /\ call.N > 1

\* C13: the phase offset at which gaussian_profile evaluates the Gaussian in
\* bin i of N differs from i/N - loc by an integer and is at most 0.5 in
\* absolute value.
C13_ShortestCyclicOffset ==
    (GaussReturned("gaussian_profile") /\ call.offsets # <<>>) =>
        \A i \in 1..call.N :
            /\ RSub(call.offsets[i],
                    RSub(RDiv(R(i - 1), R(call.N)), call.loc))[2] = 1
            /\ RLeq(RAbs(call.offsets[i]), <<1, 2>>)

\* a location outside [0, 1) and a bin that is nearer to the peak round the
\* edge of the profile than across it
C13_Witness ==
    /\ GaussReturned("gaussian_profile") /\ call.offsets # <<>>
    /\ RLt(call.loc, R(0))
    /\ \E i \in 1..call.N :
          call.offsets[i] # RSub(RDiv(R(i - 1), R(call.N)), RMod1(call.loc))
    /\ \E i \in 1..call.N : RAbs(call.offsets[i]) = <<1, 2>>

\* amp * (f/nu_ref)**index for amp >= 0
PowerLaw(amp, index, f, nu_ref) ==
    IF amp = R(0) THEN <<R(0), R(1), R(0)>>
    ELSE IF f = nu_ref \/ index = R(0) THEN <<amp, R(1), R(0)>>
    ELSE <<amp, RDiv(R(f), R(nu_ref)), index>>

\* the parameters of the profile of one channel, read by the layout DC, then
\* (loc, slope, wid, slope, amp, index) per component
ChannelParams(params, f, nu_ref) ==
    [j \in 1..(1 + 3 * NGauss(params)) |->
        IF j = 1 THEN params[1]
        ELSE LET g == (j + 1) \div 3
             IN  CASE j % 3 = 2 -> EvolvedLoc(params, g, f, nu_ref)
                   [] j % 3 = 0 -> EvolvedWidth(params, g, f, nu_ref)
                   [] j % 3 = 1 -> PowerLaw(Entry(params, g, 5),
                                            Entry(params, g, 6), f, nu_ref)]

\* the same at the reference frequency: no slope or index is read
ReferenceParams(params) ==
    [j \in 1..(1 + 3 * NGauss(params)) |->
        IF j = 1 THEN params[1]
        ELSE LET g == (j + 1) \div 3
             IN  CASE j % 3 = 2 -> Entry(params, g, 1)
                   [] j % 3 = 0 -> Entry(params, g, 3)
                   [] j % 3 = 1 -> PowerLaw(Entry(params, g, 5), R(0), 1, 1)]

AmplitudesNotNegative(params) ==
    \A g \in 1..NGauss(params) : RLeq(R(0), Entry(params, g, 5))

\* C14: for a parameter vector of length 1+6M with amplitudes >= 0,
\* gen_gaussian_portrait returns len(freqs) profiles of len(phases) bins,
\* the profile of channel f being that of the components read as (loc, loc
\* slope, wid, wid slope, amp, index) and evaluated at loc + slope*(f-nu_ref),
\* wid + slope*(f-nu_ref), amp*(f/nu_ref)**index; where f = nu_ref it does
\* not depend on the slopes and the index.
C14_LayoutAndEvolution ==
    (GaussReturned("gen_gaussian_portrait")
     /\ Len(call.params) = 1 + 6 * NGauss(call.params)
     /\ AmplitudesNotNegative(call.params)) =>
        /\ Len(call.value) = Len(call.freqs)
        /\ \A nn \in 1..Len(call.freqs) :
              /\ Len(call.value[nn]) = call.N
              /\ call.value[nn] =
                     gen_gaussian_profile(
                         ChannelParams(call.params, call.freqs[nn],
                                       call.nu_ref), call.N)
              /\ call.freqs[nn] = call.nu_ref =>
                     call.value[nn] =
                         gen_gaussian_profile(ReferenceParams(call.params),
                                              call.N)

\* two components with slopes and an index that are not zero, seen in a
\* channel at the reference frequency and in one away from it
C14_Witness ==
    /\ GaussReturned("gen_gaussian_portrait")
    /\ NGauss(call.params) = 2
    /\ AmplitudesNotNegative(call.params)
    /\ Entry(call.params, 1, 2) # R(0) /\ Entry(call.params, 1, 4) # R(0)
    /\ Entry(call.params, 2, 6) # R(0) /\ Entry(call.params, 2, 5) # R(0)
    /\ \E nn \in 1..Len(call.freqs) :
          /\ call.freqs[nn] = call.nu_ref
          /\ Len(call.value[nn][1].terms) = 2
    /\ \E nn \in 1..Len(call.freqs) :
          /\ call.freqs[nn] # call.nu_ref
          /\ Len(call.value[nn][1].terms) = 2
          /\ call.value[nn][1].terms[2][1][3] # R(0)

(***************************************************************************)
(* Re-referencing of the objective.                                        *)
(***************************************************************************)
\* the phase at the reference B of the parameters params at the reference A:
\* phase + (Dconst*DM/P) * (B**-2 - A**-2)
Rereferenced(params, A, B) ==
    <<params[1] + DconstOverP * params[2] * (B - A), params[2]>>

\* nu**-2 of the references compared
OtherReferences == {Inf, 1, 2}

ObjectiveAt(params, nu0) ==
    fit_portrait_function(params, call.mFFT, call.p, call.dFFT, call.d,
                          call.errs, call.P, call.freqs, nu0)

\* C15: with P and freqs given, the value of fit_portrait_function at
\* (phase, DM) with nu0 = A is its value at
\* (phase + (Dconst*DM/P)*(B**-2 - A**-2), DM) with nu0 = B, for every B.
C15_RereferencingIsExact ==
    (call.fn = "fit_portrait_function" /\ call.stage = "returned"
     /\ ~ProfileOnly(call.P, call.freqs)) =>
        \A B \in OtherReferences :
            ObjectiveAt(Rereferenced(call.params, call.nu0, B), B)
                = call.value

\* a dispersed evaluation whose value is a number and is not the value at the
\* same phase with another reference
C15_Witness ==
    /\ call.fn = "fit_portrait_function" /\ call.stage = "returned"
    /\ ~ProfileOnly(call.P, call.freqs)
    /\ call.params[2] # 0
    /\ RIsFinite(call.value)
    /\ \E B \in OtherReferences :
          /\ B # call.nu0
          /\ ObjectiveAt(call.params, B) # call.value

(***************************************************************************)
(* Properties of the inputs of the fits of get_TOAs.                       *)
(***************************************************************************)
\* fit_portrait_full has been called for subintegration loc.isub
FitLaunched == Fitted /\ loc.results.path = "full"

\* C16: a fit launched by a call with bounds=None is given bounds: none on
\* phase, DM and GM, a lower bound on tau of 0 (of the floor
\* log10(1/(10*nbin)) when log10_tau), and -10 and 10 on alpha.
C16_DefaultBoundsGiven ==
    (FitLaunched /\ args.bounds = None) =>
        /\ loc.bounds # None
        /\ \A i \in 1..3 : loc.bounds[i] = <<None, None>>
        /\ IF gt.log10_tau
           THEN \E iarch \in 0..(gt.nfiles - 1) :
                    loc.bounds[4] = <<Log10Floor(NBin(iarch)), None>>
           ELSE loc.bounds[4] = <<Num(0), None>>
        /\ loc.bounds[5] = <<Num(0 - 10), Num(10)>>

\* the bounds that the arguments of the call and the archive of the
\* subintegration determine
OwnBounds ==
    IF args.bounds # None
    THEN (IF args.fit_DM THEN args.bounds ELSE PinDM(args.bounds, loc.DM0))
    ELSE IF args.method = "TNC"
    THEN DefaultBounds(gt.log10_tau, NBin(loc.iarch))
    ELSE None

\* C17: the guesses, the bounds and the fit flags handed to the fit of a
\* subintegration are those that its own archive and the arguments of the
\* call determine, whatever was processed before it.
C17_FitInputsAreOwn ==
    FitLaunched =>
        /\ loc.param_guesses =
               ParamGuesses(loc.iarch, loc.isub, Num(StoredDM(loc.iarch)))
        /\ gt.fit_flags = fit_flags_of(args)
        /\ loc.bounds = OwnBounds

(***************************************************************************)
(* The result arrays of an archive.                                        *)
(***************************************************************************)
\* what the fit of subintegration isub of the current archive returns, after
\* the Doppler correction
ResultOf(isub) ==
    DopplerCorrect(gt.bary_DM, loc.nvalid[isub],
        FitOne(loc.nvalid[isub], gt.nchan_min,
               ParamGuesses(loc.iarch, isub, loc.DM_stored),
               gt.fit_flags, gt.nfit, loc.iarch, isub))

\* the TOAs of archive iarch in a TOA list, in the order of the list
RECURSIVE TOAsOf(_, _)
TOAsOf(list, iarch) ==
    IF list = <<>> THEN <<>>
    ELSE (IF Head(list).archive = iarch THEN <<Head(list).subint>> ELSE <<>>)
             \o TOAsOf(Tail(list), iarch)

\* the step that ends an archive: the arrays appended to the lists of the
\* object have nsub slots, the slot of each subintegration of ok_isubs holds
\* its result and every other slot the value unfitted (untouched for
\* doppler_fs); the TOA list holds one TOA for each subintegration of
\* ok_isubs, in their order
ArchiveStep(unfitted, untouched) ==
    (pc = "subint" /\ pc' = "archive") =>
        LET k == Len(gt'.phis)
            slots == 0..(loc.nsub - 1)
            ok == Range(loc.ok_isubs)
        IN  /\ k = Len(gt.phis) + 1
            /\ DOMAIN gt'.doppler_fs[k] = slots /\ DOMAIN gt'.phis[k] = slots
            /\ DOMAIN gt'.DMs[k] = slots /\ DOMAIN gt'.GMs[k] = slots
            /\ DOMAIN gt'.taus[k] = slots /\ DOMAIN gt'.alphas[k] = slots
            /\ DOMAIN gt'.nfevals[k] = slots /\ DOMAIN gt'.rcs[k] = slots
            /\ DOMAIN gt'.covariances[k] = slots
            /\ \A isub \in ok :
                   /\ gt'.phis[k][isub] = Float64Slot(ResultOf(isub).phi)
                   /\ gt'.DMs[k][isub] = Float64Slot(ResultOf(isub).DM)
                   /\ gt'.GMs[k][isub] = Float64Slot(ResultOf(isub).GM)
                   /\ gt'.taus[k][isub] = Float64Slot(ResultOf(isub).tau)
                   /\ gt'.alphas[k][isub] = Float64Slot(ResultOf(isub).alpha)
                   /\ gt'.nfevals[k][isub] = ResultOf(isub).nfeval
                   /\ gt'.rcs[k][isub] = ResultOf(isub).return_code
                   /\ gt'.covariances[k][isub] =
                          ResultOf(isub).covariance_matrix
                   /\ gt'.doppler_fs[k][isub] =
                          IF gt.bary_DM THEN DopplerFactor ELSE 1
            /\ \A isub \in slots \ ok :
                   /\ gt'.phis[k][isub] = Num(unfitted)
                   /\ gt'.DMs[k][isub] = Num(unfitted)
                   /\ gt'.GMs[k][isub] = Num(unfitted)
                   /\ gt'.taus[k][isub] = Num(unfitted)
                   /\ gt'.alphas[k][isub] = Num(unfitted)
                   /\ gt'.nfevals[k][isub] = unfitted
                   /\ gt'.rcs[k][isub] = unfitted
                   /\ gt'.covariances[k][isub].kind = "zeros"
                   /\ gt'.doppler_fs[k][isub] = untouched
            /\ TOAsOf(gt'.TOA_list, loc.iarch) = loc.ok_isubs
            /\ SortedSeq(Range(loc.ok_isubs)) = loc.ok_isubs

\* C18 as stated: every slot of a subintegration that is not in ok_isubs
\* holds zero, in doppler_fs as in the other arrays.
C18_UnfittedSlotsAreZero == [][ArchiveStep(0, 0)]_vars

\* C18: after an archive of nsub subintegrations every result array has nsub
\* slots, slot isub holds the result of subintegration isub for each isub of
\* ok_isubs, every other slot holds its initial value (zero; one in
\* doppler_fs), and TOA_list has one TOA of the archive per subintegration of
\* ok_isubs, in increasing order, with that isub as its 'subint' flag.
C18_SlotsHoldResults == [][ArchiveStep(0, 1)]_vars

\* an archive has been processed in which one subintegration was fitted and
\* another one was not
C18_Witness ==
    /\ pc = "archive"
    /\ Len(gt.phis) > 0
    /\ LET k == Len(gt.phis)
       IN  /\ Len(gt.ok_isubs[k]) > 0
           /\ \E isub \in DOMAIN gt.phis[k] :
                  /\ isub \notin Range(gt.ok_isubs[k])
                  /\ gt.doppler_fs[k][isub] = 1
           /\ \E isub \in Range(gt.ok_isubs[k]) :
                  gt.rcs[k][isub] # 0
           /\ Len(gt.TOA_list) >= Len(gt.ok_isubs[k])

(***************************************************************************)
(* The gradient of the objective.                                          *)
(***************************************************************************)
\* g1' of channel c: the sum of g1 with the extra factor 2 pi i k w in each
\* harmonic, in units of pi/2; the real part of i*a*z is -a*Im(z)
G1Prime(c, delay, w) ==
    RSum([k \in 1..Len(call.mFFT[c]) |->
             RMul(R(0 - (k - 1) * w),
                  CMul(CMul(call.dFFT[c][k], CConj(call.mFFT[c][k])),
                       ExpTwoPiI(PScale(k - 1, delay))).im)])

\* the factor of the DM derivative in channel c: (Dconst/P)*(freq**-2 - nu0**-2)
DMWeight(c) == DconstOverP * (call.freqs[2][c] - call.nu0)

\* -2 * g1 * g1' * errs / p of channel c
GradientTerm(c, w) ==
    RDiv(RMul(RMul(R(0 - 2),
                   RMul(G1(c, DelayAt(c)), G1Prime(c, DelayAt(c), w))),
              call.errs[c]), call.p[c])

DerivReturned ==
    call.fn = "fit_portrait_function_deriv" /\ call.stage = "returned"

\* C20: fit_portrait_function_deriv returns, for the phase and for the DM,
\* -sum_c 2*g1_c*g1'_c*errs_c/p_c with the factor 2 pi i k in g1' for the
\* phase and 2 pi i k (Dconst/P)(freq_c**-2 - nu0**-2) for the DM; a channel
\* at the frequency nu0 whose model has power adds nothing to the DM
\* component.
C20_GradientFormula ==
    DerivReturned =>
        LET chans == 1..Len(call.model)
            away == {c \in chans : call.freqs[2][c] # call.nu0}
        IN  /\ call.value[1] =
                   RSum([c \in chans |-> GradientTerm(c, 1)])
            /\ call.value[2] =
                   RSum([c \in chans |-> GradientTerm(c, DMWeight(c))])
            /\ (\A c \in chans \ away : call.p[c] # R(0)) =>
                   call.value[2] =
                       RSum([c \in chans |->
                                IF c \in away
                                THEN GradientTerm(c, DMWeight(c)) ELSE R(0)])

\* two channels, the first at nu0, where the phase component has a term of
\* the first channel and the DM component is a number other than zero
C20_Witness ==
    /\ DerivReturned
    /\ Len(call.model) = 2
    /\ call.freqs[2][1] = call.nu0
    /\ RIsFinite(call.value[1]) /\ RIsFinite(call.value[2])
    /\ GradientTerm(1, 1) # R(0)
    /\ call.value[2] # R(0)
    /\ call.value[2] # call.value[1]

(***************************************************************************)
(* first_guess (pplib lines 557-568) on portraits of four bins.  The trial *)
(* phases np.linspace(-0.5, 0.5, nguess) are counted in quarter turns, for *)
(* the nguess that make them whole quarter turns.                          *)
(***************************************************************************)
MaxGuess == 5

\* np.sum(port, axis=0)
SumChannels(port) ==
    [j \in 1..Len(port[1]) |-> RSum([c \in 1..Len(port) |-> port[c][j]])]

\* np.linspace(-0.5, 0.5, nguess)[ii], in quarter turns
TrialPhase(ii, nguess) == (4 * ii) \div (nguess - 1) - 2

\* np.correlate(a, v) of two arrays of one length: the zero-lag sum
Correlate(a, v) == RSum([j \in 1..Len(a) |-> RMul(a[j], v[j])])

\* crosscorr.argmax() is the first index of the largest value
first_guess(data, model, nguess) ==
    Only({ TrialPhase(
               (CHOOSE i \in 1..nguess :
                   /\ \A j \in 1..nguess : RLeq(crosscorr[j], crosscorr[i])
                   /\ \A j \in 1..(i - 1) : crosscorr[j] # crosscorr[i]) - 1,
               nguess) :
           crosscorr \in {SubSeq([ii \in 1..nguess |->
               Correlate(fft_rotate(SumChannels(data),
                                    Ph(TrialPhase(ii - 1, nguess), 0)),
                         SumChannels(model))], 1, nguess)} })

GuessPorts == UNION { [1..nchan -> Profiles(4)] : nchan \in 1..MaxRotChan }

InitGuess ==
    /\ NoGetTOAs
    /\ \E data \in GuessPorts, model \in [1..1 -> ObjProfiles],
          nguess \in {n \in 2..MaxGuess : 4 % (n - 1) = 0} :
         call = [fn |-> "first_guess", stage |-> "called", data |-> data,
                 model |-> model, nguess |-> nguess, value |-> 0]

CallFirstGuess ==
    /\ call.stage = "called"
    /\ call' = [call EXCEPT
                  !.stage = "returned",
                  !.value = first_guess(call.data, call.model, call.nguess)]
    /\ UNCHANGED <<pc, args, gt, loc, err>>

NextGuess == CallFirstGuess

SpecGuess == InitGuess /\ [][NextGuess]_vars

\* the zero-lag cross-correlations at the trial phases of the call
ZeroLags ==
    SubSeq([ii \in 1..call.nguess |->
               Correlate(fft_rotate(SumChannels(call.data),
                                    Ph(TrialPhase(ii - 1, call.nguess), 0)),
                         SumChannels(call.model))], 1, call.nguess)

\* C21: first_guess returns one of its trial phases, the zero-lag
\* cross-correlation of the rotated summed data with the summed model is
\* largest there, and the phase is in (-0.5, 0.5]: more than -2 and at most
\* 2 quarter turns.
C21_GuessInHalfOpenInterval ==
    call.stage = "returned" =>
        /\ \E zl \in {ZeroLags} :
           \E ii \in 1..call.nguess :
              /\ call.value = TrialPhase(ii - 1, call.nguess)
              /\ \A jj \in 1..call.nguess : RLeq(zl[jj], zl[ii])
        /\ 0 - 2 < call.value /\ call.value <= 2

(***************************************************************************)
(* Properties of the command line.                                         *)
(***************************************************************************)
\* C22: with one_DM and the tempo2 format, when at least one TOA was
\* measured the TOAs are written without error, each with the weighted-mean
\* DeltaDM of its archive (plus DM0) as its DM.
C22_OneDMWritesMeans ==
    (call.fn = "write_TOAs" /\ call.format = "tempo2" /\ call.one_DM
     /\ gt.TOA_list # <<>>) =>
        /\ pc = "written"
        /\ Len(call.written) = Len(gt.TOA_list)
        /\ \A k \in 1..Len(call.written) :
               call.written[k].DM =
                   [kind |-> "DeltaDM_mean",
                    of |-> Num(gt.TOA_list[k].archive)]

\* C23: a subintegration gets the full fit if and only if its number of
\* valid channels is at least nchan_min, and the phase-only fallback
\* otherwise; nchan_min is 1 + (1 if fit_DM) + (1 if fit_GM), raised to at
\* least 2 when the scattering index is fitted (fit_scat and not fix_alpha).
C23_FullFitIffEnoughChannels ==
    Fitted =>
        LET counted == 1 + (IF args.fit_DM THEN 1 ELSE 0)
                         + (IF args.fit_GM THEN 1 ELSE 0)
            needed == IF args.fit_scat /\ ~args.fix_alpha /\ counted < 2
                      THEN 2 ELSE counted
        IN  /\ gt.nchan_min = needed
            /\ loc.results.path = "full" <=> FittedChannels >= needed
            /\ loc.results.path = "fallback" <=> FittedChannels < needed

C23_Witness ==
    /\ Fitted /\ pc = "subint"
    /\ args.fit_DM /\ args.fit_GM
    /\ FittedChannels = 3
    /\ gt.nchan_min = 3
    /\ loc.results.path = "full"

\* the per-archive result lists of the object
ResultLists(g) ==
    <<g.order, g.ok_isubs, g.doppler_fs, g.DM0s, g.phis, g.DMs, g.GMs,
      g.taus, g.alphas, g.nfevals, g.rcs, g.covariances>>

\* the result lists are aligned with ok_idatafiles: same length, the k-th
\* entry is the one of archive ok_idatafiles[k], and every TOA's DM is found
\* in the entry of its archive
Aligned ==
    /\ \A n \in 1..Len(ResultLists(gt)) :
           Len(ResultLists(gt)[n]) = Len(gt.ok_idatafiles)
    /\ \A k \in 1..Len(gt.ok_idatafiles) :
           /\ gt.order[k] = gt.ok_idatafiles[k]
           /\ gt.DM0 = None => gt.DM0s[k] = Num(StoredDM(gt.ok_idatafiles[k]))
    /\ \A n \in 1..Len(gt.TOA_list) :
           \E k \in 1..Len(gt.ok_idatafiles) :
               /\ gt.ok_idatafiles[k] = gt.TOA_list[n].archive
               /\ gt.TOA_list[n].subint \in Range(gt.ok_isubs[k])
               /\ gt.DMs[k][gt.TOA_list[n].subint] =
                      Float64Slot(gt.TOA_list[n].DM)

\* an archive is skipped: the loop goes on without fitting it
SkipStep ==
    /\ pc = "archive" /\ pc' = "archive"
    /\ gt'.ok_idatafiles = gt.ok_idatafiles

\* C24: in one call over the datafiles of a fresh object, an archive that
\* cannot be loaded or has no good subintegration is skipped without
\* changing any result list and the loop goes on with the next archive; when
\* the call returns, all per-archive result lists have the length of
\* ok_idatafiles and their k-th entry belongs to datafiles[ok_idatafiles[k]].
C24_SkippedArchivesLeaveNoTrace ==
    [][/\ SkipStep => /\ ResultLists(gt') = ResultLists(gt)
                      /\ gt'.TOA_list = gt.TOA_list
                      /\ loc'.iarch = loc.iarch + 1
       /\ (pc = "archive" /\ pc' = "done") => Aligned']_vars

\* the first archive was skipped, the second was fitted, the call returned
C24_Witness ==
    /\ pc = "done"
    /\ gt.nfiles = 2
    /\ gt.ok_idatafiles = <<1>>
    /\ gt.order = <<1>>
    /\ Len(gt.TOA_list) > 0

\* C25: self.log10_tau is True only when fit_scat is True; when tau is fitted
\* in log10 space the tau guess handed to the fit is the log10 of a strictly
\* positive number (1/nbin for a zero timescale) and is not below the
\* log-space lower bound log10(1/(10*nbin)).
C25_Log10TauGuessAboveFloor ==
    /\ (pc # "start" /\ gt.log10_tau) => args.fit_scat
    /\ (FitLaunched /\ gt.log10_tau) =>
           \E g \in {loc.param_guesses[4]} :
               /\ g[1] = "log10"
               /\ g[2] > 0 /\ g[3] > 0
               /\ gt.gparams_tau \in {None, <<0, 1>>} =>
                      g = <<"log10", 1, NBin(loc.iarch)>>
               /\ g[2] * 10 * NBin(loc.iarch) >= g[3]

(***************************************************************************)
(* Several calls of get_TOAs on one GetTOAs object, archive by archive     *)
(* (pptoas.py, lines 218-243 and 553-587), and the index ifile that        *)
(* show_fit, show_subint and write_princeton_TOAs compute afterwards       *)
(* (lines 677-678, 776-777).  A datafile is named by its position in       *)
(* self.datafiles.  Every per-archive result list is appended to at the    *)
(* same place, so one list stands for all: its entries record the archive  *)
(* and the call that produced them.                                        *)
(***************************************************************************)
MaxCalls == 3

\* list(np.array(self.datafiles)[self.ok_idatafiles])
OkDatafiles(g) == [k \in 1..Len(g.ok_idatafiles) |-> g.ok_idatafiles[k]]

\* list.index(datafile): the first position, from 0; ValueError if absent
Index(names, datafile) ==
    IF \E k \in 1..Len(names) : names[k] = datafile
    THEN Num((CHOOSE k \in 1..Len(names) :
                 /\ names[k] = datafile
                 /\ \A j \in 1..(k-1) : names[j] # datafile) - 1)
    ELSE None

InitCalls ==
    /\ pc = "idle"
    /\ args = [datafile |-> None]
    /\ \E n \in 1..MaxFiles :
         gt = [nfiles |-> n, ncalls |-> 0, ok_idatafiles |-> <<>>,
               order |-> <<>>, phis |-> <<>>]
    /\ loc = [datafiles |-> <<>>, iarch |-> 0]
    /\ err = NoError
    /\ call = NoCall

\* lines 218-224: self.ok_idatafiles = []; datafiles = self.datafiles or
\* [datafile]
StartCall ==
    /\ pc = "idle"
    /\ gt.ncalls < MaxCalls
    /\ \E datafile \in {None} \cup {Num(f) : f \in 0..(gt.nfiles - 1)} :
         /\ args' = [datafile |-> datafile]
         /\ loc' = [datafiles |-> IF datafile = None
                                  THEN [i \in 1..gt.nfiles |-> i - 1]
                                  ELSE <<datafile[2]>>,
                    iarch |-> 0]
    /\ gt' = [gt EXCEPT !.ncalls = @ + 1, !.ok_idatafiles = <<>>]
    /\ pc' = "archives"
    /\ call' = NoCall
    /\ UNCHANGED err

\* lines 228-243: load_data raises RuntimeError or finds no good subint
SkipDatafile ==
    /\ pc = "archives"
    /\ loc.iarch < Len(loc.datafiles)
    /\ loc' = [loc EXCEPT !.iarch = @ + 1]
    /\ UNCHANGED <<pc, args, gt, err, call>>

\* lines 239 and 553-587: iarch, the position in the list that the loop
\* enumerates, goes to ok_idatafiles; the arrays go to the result lists
FitDatafile ==
    /\ pc = "archives"
    /\ loc.iarch < Len(loc.datafiles)
    /\ gt' = [gt EXCEPT
                !.ok_idatafiles = Append(@, loc.iarch),
                !.order = Append(@, loc.datafiles[loc.iarch + 1]),
                !.phis = Append(@, [archive |-> loc.datafiles[loc.iarch + 1],
                                    fit |-> gt.ncalls])]
    /\ loc' = [loc EXCEPT !.iarch = @ + 1]
    /\ UNCHANGED <<pc, args, err, call>>

EndCall ==
    /\ pc = "archives"
    /\ loc.iarch = Len(loc.datafiles)
    /\ pc' = "idle"
    /\ UNCHANGED <<args, gt, loc, err, call>>

\* ifile = list(np.array(self.datafiles)[self.ok_idatafiles]).index(datafile)
\* and self.phis[ifile]
LookUp ==
    /\ pc = "idle"
    /\ gt.ncalls > 0
    /\ \E datafile \in 0..(gt.nfiles - 1) :
         \E ifile \in {Index(OkDatafiles(gt), datafile)} :
             call' = IF ifile = None
                     THEN [fn |-> "ifile", datafile |-> datafile,
                           stage |-> "raised", ifile |-> None]
                     ELSE [fn |-> "ifile", datafile |-> datafile,
                           stage |-> "returned", ifile |-> ifile,
                           phis |-> gt.phis[ifile[2] + 1]]
    /\ UNCHANGED <<pc, args, gt, loc, err>>

NextCalls == StartCall \/ SkipDatafile \/ FitDatafile \/ EndCall \/ LookUp

SpecCalls == InitCalls /\ [][NextCalls]_vars

\* the entries of archive datafile in the result list, oldest first
FitsOf(datafile) ==
    SelectSeq(gt.phis, LAMBDA e : e.archive = datafile)

\* C26: after any sequence of get_TOAs calls on one object, with
\* datafile=None or one named datafile, the index ifile computed for a
\* fitted archive selects the entry that the most recent fit of that
\* archive produced.
C26_IfileSelectsLatestFit ==
    (call.fn = "ifile" /\ FitsOf(call.datafile) # <<>>) =>
        /\ call.stage = "returned"
        /\ call.phis = FitsOf(call.datafile)[Len(FitsOf(call.datafile))]

(***************************************************************************)
(* The DM that is not fitted, and the Doppler factors.                     *)
(***************************************************************************)
\* C27: when fit_DM is False, the DM placed in param_guesses is the DM0 that
\* the DM bound is pinned to, whether the DM0 argument is None or a value
\* different from the DM stored in the archive.
C27_FixedDMGuessIsPinnedDM0 ==
    (Fitted /\ ~args.fit_DM) =>
        /\ loc.bounds[2] = <<loc.DM0, loc.DM0>>
        /\ loc.param_guesses[2] = loc.DM0

\* what the fit of the subintegration loc.isub returned, before the Doppler
\* correction
ReturnedByFit ==
    FitOne(FittedChannels, gt.nchan_min, loc.param_guesses, gt.fit_flags,
           gt.nfit, loc.iarch, loc.isub)

\* C28: for every fitted subintegration, whatever its number of valid
\* channels and bary_DM, the stored DM is the DM returned by the fit times
\* the stored doppler_fs entry, likewise the GM, and doppler_fs is 1 when no
\* correction was applied.
C28_DopplerFactorIsTheOneApplied ==
    (Fitted /\ pc = "subint") =>
        /\ ReturnedByFit.DM # None =>
               loc.DMs[loc.isub] =
                   Num(ReturnedByFit.DM[2] * loc.doppler_fs[loc.isub])
        /\ ReturnedByFit.GM # None =>
               loc.GMs[loc.isub] =
                   Num(ReturnedByFit.GM[2] * loc.doppler_fs[loc.isub])
        /\ loc.results = ReturnedByFit => loc.doppler_fs[loc.isub] = 1

(***************************************************************************)
(* The sign of the objective, and the inputs its derivatives accept.       *)
(***************************************************************************)
\* C29: with model power in every channel, precisions that are not
\* negative, and d and p computed as fit_portrait computes them, the value
\* of fit_portrait_function is not negative at any (phase, DM), because in
\* every channel g1_c^2 <= p_c * sum_k |data_c[k]|^2.
C29_ObjectiveNotNegative ==
    (call.fn = "fit_portrait_function" /\ call.stage = "returned"
     /\ HasPower) =>
        /\ \A c \in 1..Len(call.model) :
               /\ RLeq(R(0), call.errs[c])
               /\ RLeq(RMul(G1(c, DelayAt(c)), G1(c, DelayAt(c))),
                       RMul(call.p[c], ModelPower(call.dFFT)[c]))
        /\ call.d = DataPower(call.errs, call.dFFT)
        /\ RLeq(R(0), call.value)

C29_Witness ==
    /\ call.fn = "fit_portrait_function" /\ call.stage = "returned"
    /\ HasPower
    /\ Len(call.model) = 2
    /\ call.freqs # None
    /\ call.params = <<1, 1>>
    /\ call.errs[2] = R(3)
    /\ ~PerfectFit
    /\ \E c \in 1..2 : G1(c, DelayAt(c)) # R(0)
    /\ RLt(R(0), call.value)

\* C30: the gradient and the second derivative evaluate on every argument
\* set on which fit_portrait_function evaluates, the profile-only one with P
\* or freqs None included.
C30_DerivativesAcceptSameInputs ==
    call.fn \in {"fit_portrait_function_deriv",
                 "fit_portrait_function_2deriv"} =>
        /\ call.stage = "returned"
        /\ ProfileOnly(call.P, call.freqs) => Len(call.value) = 2

====
